---- MODULE Spec2Model ----
(***************************************************************************)
(* Hybrid retrieval engine and ingestion pipeline of ololopopova/ai-chat.  *)
(*                                                                         *)
(*   IngestService.ingest_agent src/src/services/ingest/ingest_service.py  *)
(*   Chunker.chunk_sections     src/src/services/ingest/chunker.py         *)
(*   EmbeddingService           src/src/services/ingest/embedding_service.py *)
(*   UnitOfWork                 src/src/repositories/unit_of_work.py       *)
(*   RAGService.search          src/src/services/rag_service.py  (Mode B)  *)
(*   hybrid_search              src/mcp_servers/rag/search.py    (Mode A)  *)
(*   hybrid_search (MCP tool)   src/mcp_servers/rag/tools.py               *)
(*   Reranker.rerank            src/mcp_servers/rag/reranker.py            *)
(*   ChunkRepository.search_*   src/src/repositories/chunk_repository.py   *)
(*   MCPClientManager           src/src/mcp_client/manager.py              *)
(*   ChatService.process_message src/src/services/chat_service.py          *)
(*   ConnectionManager          src/src/api/services/connection_manager.py *)
(*   websocket_chat             src/src/api/routes/chat.py                 *)
(*                                                                         *)
(* Python floats are modelled as exact rationals <<n, d>> in lowest terms  *)
(* with d > 0, so that (rank - min) / range and the weighted sum are       *)
(* computed, not approximated.  What a query matches in the store (the     *)
(* ts_rank of a chunk, the cosine distance of a chunk) depends on text and *)
(* embeddings; it is drawn afresh, from bounded sets, for every store      *)
(* query, each of which runs in a transaction of its own.                  *)
(***************************************************************************)
EXTENDS Integers, Sequences, FiniteSets, TLC

\* ------------------------------------------------------------------ bounds
NChunks == 4
\* ts_rank values of matching chunks are 1..MaxRank; 0 stands for "no match"
MaxRank == 3
\* cosine distances are k / DistDen for k in 0..2*DistDen (the range [0, 2])
DistDen == 1
\* largest top_k / top_k_per_query / final_top_k a caller asks for
MaxTopK == 2
\* largest number of sub-queries (vector + FTS) of one Mode A call
MaxQueries == 2
\* most results rendered into one context
MaxContext == 3
\* tool calls that can be under way at the same time in one process
MaxTasks == 3
\* most chunks handed to one Reranker.rerank call
MaxRerank == 3
\* events the graph delivers in one run of process_message
MaxGraphEvents == 4
\* WebSocket sessions that can be open at the same time
MaxSessions == 2
\* ingest_agent runs that can be under way at the same time
MaxRuns == 2
\* ingest_agent runs started in one behaviour
MaxBatches == 2
\* most sections of a document handed to chunk_sections on its own
MaxSections == 3
\* most sections of a document an ingest_agent run loads
MaxIngestSections == 2

\* ------------------------------------------------------------- rationals
Abs(x) == IF x < 0 THEN -x ELSE x

RECURSIVE GCD(_, _)
GCD(a, b) == IF b = 0 THEN a ELSE GCD(b, a % b)

\* n / d in lowest terms, d > 0
Rat(n, d) ==
  LET g == GCD(Abs(n), d) IN <<n \div g, d \div g>>

RZero == <<0, 1>>
ROne == <<1, 1>>
RLeq(a, b) == a[1] * b[2] <= b[1] * a[2]
RLt(a, b) == a[1] * b[2] < b[1] * a[2]
RAdd(a, b) == Rat(a[1] * b[2] + b[1] * a[2], a[2] * b[2])
RSub(a, b) == Rat(a[1] * b[2] - b[1] * a[2], a[2] * b[2])
RMul(a, b) == Rat(a[1] * b[1], a[2] * b[2])
RNeg(a) == <<-a[1], a[2]>>
InUnit(a) == RLeq(RZero, a) /\ RLeq(a, ROne)

\* ------------------------------------------------------------------ store
ChunkIds == 1..NChunks
NoDomain == 0
Slugs == {"products", "compatibility", "unknown"}

\* rows of the domains table: slug -> id
DomainRows == [products |-> 1, compatibility |-> 2]

\* DomainRepository.get_by_slug: the id of the row with that slug, or None
get_by_slug(slug) ==
  IF slug \in DOMAIN DomainRows THEN DomainRows[slug] ELSE NoDomain

\* what one query matches: a rank per chunk (0: the tsvector does not match),
\* a distance numerator per chunk.  Chunk 1, the chunk of the other domain,
\* is the best match of every query: the case a domain filter exists for.
RankVals == 0..MaxRank
DistVals == 0..(2 * DistDen)
RankFns == {f \in [ChunkIds -> RankVals] : f[1] = MaxRank}
DistFns == {f \in [ChunkIds -> DistVals] : f[1] = 0}
Distance(k) == Rat(k, DistDen)

\* ------------------------------------------------------ EmbeddingService
EMBEDDING_DIMENSION == 1536
MAX_BATCH_SIZE == 100
MAX_RETRIES == 3

\* exceptions client.embeddings.create (AsyncOpenAI) raises, by class:
\* Python's TimeoutError and ConnectionError, and the classes of the openai
\* package, whose APITimeoutError and APIConnectionError derive from
\* openai.OpenAIError and not from the two built-in classes
ProviderErrors ==
  {"TimeoutError", "ConnectionError", "APITimeoutError", "APIConnectionError",
   "AuthenticationError", "BadRequestError"}

\* retry_if_exception_type((TimeoutError, ConnectionError))
is_retried(kind) == kind \in {"TimeoutError", "ConnectionError"}

\* a vector is modelled by the text it embeds and by its length
Embedding(text, dim) == [text |-> text, dim |-> dim]

\* response.data of one call for texts: count items in input order (an item
\* past the last text embeds no text, 0); item bad, if any, has a wrong length
OkResponse(texts, count, bad) ==
  [kind |-> "ok",
   data |-> [i \in 1..count |->
               Embedding(IF i <= Len(texts) THEN texts[i] ELSE 0,
                         IF i = bad THEN EMBEDDING_DIMENSION - 1
                         ELSE EMBEDDING_DIMENSION)]]

ErrResponse(kind) == [kind |-> kind, data |-> <<>>]

\* everything the provider may do on one attempt for texts
Responses(texts) ==
  LET n == Len(texts) IN
  {OkResponse(texts, n, 0), OkResponse(texts, n + 1, 0),
   OkResponse(texts, n, 1), OkResponse(texts, n, n)}
  \cup (IF n > 0 THEN {OkResponse(texts, n - 1, 0)} ELSE {})
  \cup {ErrResponse(k) : k \in ProviderErrors}

\* what the provider does on each of the attempts a call can make
ProviderRuns(texts, max_retries) == [1..max_retries -> Responses(texts)]

EmbedOk(embeddings, calls) ==
  [status |-> "ok", embeddings |-> embeddings, calls |-> calls, error |-> ""]
EmbedRaised(error, calls) ==
  [status |-> "EmbeddingError", embeddings |-> <<>>, calls |-> calls, error |-> error]

\* EmbeddingService._generate_with_retry from attempt number attempt on:
\* AsyncRetrying(stop_after_attempt(max_retries), retry on TimeoutError and
\* ConnectionError, reraise); whatever is raised leaves as EmbeddingError
RECURSIVE generate_with_retry(_, _, _, _)
generate_with_retry(texts, responses, max_retries, attempt) ==
  LET r == responses[attempt] IN
  IF r.kind = "ok"
  THEN IF Len(r.data) # Len(texts) THEN EmbedRaised("count_mismatch", attempt)
       ELSE EmbedOk(r.data, attempt)
  ELSE IF is_retried(r.kind) /\ attempt < max_retries
       THEN generate_with_retry(texts, responses, max_retries, attempt + 1)
       ELSE EmbedRaised(r.kind, attempt)

\* generate_batch without the check of the batch size
generate_batch_unbounded(texts, responses, max_retries) ==
  IF Len(texts) = 0 THEN EmbedOk(<<>>, 0)
  ELSE LET r == generate_with_retry(texts, responses, max_retries, 1) IN
       IF r.status # "ok" THEN r
       ELSE IF \E i \in 1..Len(r.embeddings) :
                 r.embeddings[i].dim # EMBEDDING_DIMENSION
            THEN EmbedRaised("dimension", r.calls)
            ELSE r

\* generate_batch without the validation of the dimension
generate_batch_unvalidated(texts, responses, max_retries) ==
  IF Len(texts) = 0 THEN EmbedOk(<<>>, 0)
  ELSE IF Len(texts) > MAX_BATCH_SIZE THEN EmbedRaised("batch_size", 0)
  ELSE generate_with_retry(texts, responses, max_retries, 1)

\* generate_batch embedding the first MAX_BATCH_SIZE texts of a longer list
generate_batch_truncating(texts, responses, max_retries) ==
  IF Len(texts) = 0 THEN EmbedOk(<<>>, 0)
  ELSE LET head == SubSeq(texts, 1, IF Len(texts) > MAX_BATCH_SIZE
                                    THEN MAX_BATCH_SIZE ELSE Len(texts))
           r == generate_with_retry(head, responses, max_retries, 1)
       IN IF r.status # "ok" THEN r
          ELSE IF \E i \in 1..Len(r.embeddings) :
                    r.embeddings[i].dim # EMBEDDING_DIMENSION
               THEN EmbedRaised("dimension", r.calls)
               ELSE r

\* EmbeddingService.generate_batch: [status, embeddings, calls, error], calls
\* being the number of calls of client.embeddings.create it made
generate_batch(texts, responses, max_retries) ==
  IF Len(texts) = 0 THEN EmbedOk(<<>>, 0)
  ELSE IF Len(texts) > MAX_BATCH_SIZE THEN EmbedRaised("batch_size", 0)
  ELSE LET r == generate_with_retry(texts, responses, max_retries, 1) IN
       IF r.status # "ok" THEN r
       ELSE IF \E i \in 1..Len(r.embeddings) :
                 r.embeddings[i].dim # EMBEDDING_DIMENSION
            THEN EmbedRaised("dimension", r.calls)
            ELSE r

\* EmbeddingService.generate_single: generate_batch([text]), then [0]
generate_single(text, responses, max_retries) ==
  generate_batch(<<text>>, responses, max_retries)

\* ---------------------------------------------------------------- Chunker
\* Chunker(min_chunk_size=100), the default IngestService passes on
MIN_CHUNK_SIZE == 100

\* the contents a section can have, by what chunk_sections looks at: the
\* length, and whether strip() leaves nothing
SectionKinds == {"empty", "blank", "small", "exact", "large"}
ContentLen(kind) ==
  CASE kind = "empty" -> 0
    [] kind = "blank" -> 2
    [] kind = "small" -> MIN_CHUNK_SIZE - 1
    [] kind = "exact" -> MIN_CHUNK_SIZE
    [] OTHER -> MIN_CHUNK_SIZE + 1

\* ParsedSection number pos of a document: its content is the text pos, of
\* the length and blankness of its kind
ParsedSection(pos, kind) ==
  [content |-> pos, len |-> ContentLen(kind), blank |-> kind \in {"empty", "blank"}]

\* the section list of a document given by the kinds of its sections
Sections(kinds) == [i \in 1..Len(kinds) |-> ParsedSection(i, kinds[i])]

ChunkResult(section, chunk_index) ==
  [content |-> section.content, len |-> section.len, blank |-> section.blank,
   chunk_index |-> chunk_index]

\* "not section.content or not section.content.strip()"
IsEmptySection(section) == section.len = 0 \/ section.blank

\* the size test without the exemption of a sole section
IsTooSmall_always(section, sections, min_chunk_size) ==
  section.len < min_chunk_size

\* "len(section.content) < self._min_chunk_size and len(sections) > 1"
IsTooSmall(section, sections, min_chunk_size) ==
  section.len < min_chunk_size /\ Len(sections) > 1

\* the body of the for loop of chunk_sections on the state st of the loop:
\* i the section it is at, chunks and chunk_index what it has reached
chunk_step(sections, min_chunk_size, st) ==
  IF IsEmptySection(sections[st.i])
       \/ IsTooSmall(sections[st.i], sections, min_chunk_size)
  THEN [st EXCEPT !.i = st.i + 1]
  ELSE [i |-> st.i + 1,
        chunks |-> Append(st.chunks, ChunkResult(sections[st.i], st.chunk_index)),
        chunk_index |-> st.chunk_index + 1]

\* the index of a chunk taken from the position of its section
RECURSIVE chunk_loop_by_position(_, _, _)
chunk_loop_by_position(sections, min_chunk_size, st) ==
  IF st.i > Len(sections) THEN st.chunks
  ELSE chunk_loop_by_position(
         sections, min_chunk_size,
         LET next == chunk_step(sections, min_chunk_size, st) IN
         IF Len(next.chunks) = Len(st.chunks) THEN next
         ELSE [next EXCEPT !.chunks[Len(next.chunks)].chunk_index = st.i - 1])

\* the for loop of chunk_sections from the state st on
RECURSIVE chunk_loop(_, _, _)
chunk_loop(sections, min_chunk_size, st) ==
  IF st.i > Len(sections) THEN st.chunks
  ELSE chunk_loop(sections, min_chunk_size,
                  chunk_step(sections, min_chunk_size, st))

\* Chunker.chunk_sections
chunk_sections(sections, min_chunk_size) ==
  chunk_loop(sections, min_chunk_size,
             [i |-> 1, chunks |-> <<>>, chunk_index |-> 0])

VARIABLES
  db_chunks,       \* committed rows of the chunks table: [id, domain_id,
                   \* has_embedding, chunk_index, batch, content,
                   \* embedding_of]: batch is the document version the
                   \* content comes from, embedding_of the text embedded
  dense_weight,    \* RAGService._dense_weight (0 while no service is built)
  sparse_weight,   \* RAGService._sparse_weight (0 while no service is built)
  r_pc,            \* RAGService.search: "idle", "returned", "raised"
  r_in,            \* its arguments [agent_id, top_k, min_score, search_type]
  r_fts,           \* fts_results of the call: sequence of [id, rank]
  r_vec,           \* vector_results of the call: sequence of [id, distance]
  r_fts_scores,    \* normalized FTS scores, one per fts_results entry
  r_merged,        \* the dict merged of _search_hybrid: set of [id, score]
  r_out,           \* the returned list of RAGResult [chunk_id, score, search_type]
  r_calls,         \* store searches issued by the call: [kind, domain_id, limit]
  embedding_service, \* RAGService._embedding_service: "injected" or "none"
  r_err,           \* the step of the call that raised, "" if none did
  r_emb,           \* EmbeddingService objects of the call: [created, closed]
  a_pc,            \* search.hybrid_search: "idle", "queries", "returned", "raised"
  a_in,            \* its arguments [domain, top_k_per_query]
  a_domain_id,     \* domain_id, set by the lookup
  a_vleft,         \* vector_queries still to run
  a_fleft,         \* fts_queries still to run
  a_all,           \* the dict all_results in insertion order: sequence of [id, score]
  a_out,           \* the returned list of RAGChunk [chunk_id, score, search_type]
  a_hits,          \* every (chunk, signal, score) a sub-query of the call produced
  a_last,          \* results of the latest FTS sub-query: sequence of [id, rank, score]
  a_calls,         \* store searches issued by the call
  a_err,           \* the step of the call that raised, "" if none did
  a_emb,           \* EmbeddingService objects of the call: [created, closed]
  t_pc,            \* tools.hybrid_search: "idle", "searching", "filter", "returned"
  t_in,            \* the fields of input_data it read after the search
  t_chunks,        \* its local chunks after step 2
  t_out,           \* the RAGSearchResult it returns [chunks, total_found, failed]
  ingest,          \* the state of every run of IngestService.ingest_agent
  next_batch,      \* number of the next document version a run loads
  c_pc,            \* a call of Chunker.chunk_sections: "idle", "returned"
  c_in,            \* its argument sections
  c_out,           \* the list it returned
  e_pc,            \* a call of EmbeddingService.generate_batch: "idle", "done"
  e_in,            \* [texts, responses, max_retries]: the argument, what the
                   \* provider does on each attempt, self._max_retries
  e_out,           \* how the call ended: [status, embeddings, calls, error]
  rerank_call,     \* a call of Reranker.rerank: [pc, chunks, scores, top_k, out]
  reranker,        \* tools._reranker_instance and the tool calls using it
  perm,            \* two Mode A calls on one store, the queries permuted
  context,         \* a context assembly: [pc, results, tool, service]
  mcp,             \* an MCPClientManager and the latest call on it
  chat,            \* a ChatService.process_message stream
  ws               \* the ConnectionManager and the websocket_chat handlers

rag_vars == <<dense_weight, sparse_weight, r_pc, r_in, r_fts, r_vec,
              r_fts_scores, r_merged, r_out, r_calls, embedding_service,
              r_err, r_emb>>
a_vars == <<a_pc, a_in, a_domain_id, a_vleft, a_fleft, a_all, a_out, a_hits,
            a_last, a_calls, a_err, a_emb>>
t_vars == <<t_pc, t_in, t_chunks, t_out>>
search_vars == <<rag_vars, a_vars, t_vars>>
i_vars == <<ingest, next_batch>>
c_vars == <<c_pc, c_in, c_out>>
e_vars == <<e_pc, e_in, e_out>>
\* what no search operation writes
\* the components that share nothing with search and ingestion
x_vars == <<rerank_call, reranker, perm, context, mcp, chat, ws>>
\* what no search operation touches
nonstore_vars == <<i_vars, c_vars, e_vars, x_vars>>
nonsearch_vars == <<db_chunks, i_vars, c_vars, e_vars, x_vars>>
\* what the components of x_vars do not write
core_vars == <<db_chunks, search_vars, i_vars, c_vars, e_vars>>
vars == <<db_chunks, rag_vars, a_vars, t_vars, i_vars, c_vars, e_vars, x_vars>>

Min2(a, b) == IF a <= b THEN a ELSE b

\* the rows a WHERE clause on domain_id keeps (None: no filter)
InDomain(rows, domain_id) ==
  {c \in rows : domain_id = NoDomain \/ c.domain_id = domain_id}

\* ---------------------------------------------------------- UnitOfWork
\* a transaction of the session: the rows its DELETE statement saw when it
\* started, the rows it deleted, the rows it inserted, none of them committed
NoTx == [snapshot |-> {}, deleted |-> {}, inserted |-> {}]

\* UnitOfWork.commit: the deletions and insertions of the transaction become
\* the committed rows
Commit(db, tx) == {c \in db : c.id \notin tx.deleted} \cup tx.inserted

\* an exit that writes what the session has flushed
UowExit_flushed(db, tx, raised) == Commit(db, tx)

\* UnitOfWork.__aexit__: rollback on an exception, then close; what was not
\* committed is gone either way
UowExit(db, tx, raised) == db

\* a unit of work that loses the rows of the store when it rolls back
search_uow_exit_losing(db, raised) == IF raised THEN {} ELSE db

\* "async with uow" around the statements of a search, all of them SELECT:
\* the session is left with nothing written and without a commit
search_uow_exit(db, raised) == UowExit(db, NoTx, raised)

\* ORDER BY key DESC LIMIT n over the ids in S: every sequence the database
\* may return (rows of equal key come in any order)
RECURSIVE OrderedTop(_, _, _)
OrderedTop(S, key, n) ==
  IF n <= 0 \/ S = {} THEN {<<>>}
  ELSE LET best == {c \in S : \A o \in S : RLeq(key[o], key[c])}
       IN UNION {{<<c>> \o t : t \in OrderedTop(S \ {c}, key, n - 1)} : c \in best}

\* search_fts with the WHERE clause on domain_id left out
search_fts_any_domain(rk, domain_id, limit) ==
  LET rows == {c.id : c \in {x \in db_chunks : rk[x.id] > 0}}
      key == [c \in ChunkIds |-> Rat(rk[c], 1)]
  IN {[i \in 1..Len(s) |-> [id |-> s[i], rank |-> rk[s[i]]]] :
        s \in OrderedTop(rows, key, limit)}

\* ChunkRepository.search_fts: (Chunk, rank) of the matching rows of the
\* domain, ORDER BY rank DESC LIMIT limit
search_fts(rk, domain_id, limit) ==
  LET rows == {c.id : c \in {x \in InDomain(db_chunks, domain_id) : rk[x.id] > 0}}
      key == [c \in ChunkIds |-> Rat(rk[c], 1)]
  IN {[i \in 1..Len(s) |-> [id |-> s[i], rank |-> rk[s[i]]]] :
        s \in OrderedTop(rows, key, limit)}

\* ChunkRepository.search_vector: (Chunk, distance) of the embedded rows of
\* the domain with distance <= 1 - threshold, ORDER BY distance LIMIT limit
search_vector(ds, domain_id, limit, threshold) ==
  LET rows == {c.id : c \in {x \in InDomain(db_chunks, domain_id) :
                   /\ x.has_embedding
                   /\ RLeq(Distance(ds[x.id]), RSub(ROne, threshold))}}
      key == [c \in ChunkIds |-> RNeg(Distance(ds[c]))]
  IN {[i \in 1..Len(s) |-> [id |-> s[i], distance |-> Distance(ds[s[i]])]] :
        s \in OrderedTop(rows, key, limit)}


\* ------------------------------------------------ RAGService (Mode B)
RankMax(res) == CHOOSE m \in {res[i].rank : i \in 1..Len(res)} :
                  \A i \in 1..Len(res) : res[i].rank <= m
RankMin(res) == CHOOSE m \in {res[i].rank : i \in 1..Len(res)} :
                  \A i \in 1..Len(res) : m <= res[i].rank

RAGResult(id, score, search_type) ==
  [chunk_id |-> id, score |-> score, search_type |-> search_type]

\* _search_fts dividing by max_rank instead of the range
FtsNormalized_by_max(res) ==
  IF Len(res) = 1 THEN <<ROne>>
  ELSE LET max_rank == RankMax(res)
           min_rank == RankMin(res)
       IN [i \in 1..Len(res) |-> Rat(res[i].rank - min_rank, max_rank)]

\* _search_fts: the normalized_score of every entry of fts_results
FtsNormalized(res) ==
  IF Len(res) = 1 THEN <<ROne>>
  ELSE LET max_rank == RankMax(res)
           min_rank == RankMin(res)
           rank_range == IF max_rank > min_rank THEN max_rank - min_rank ELSE 1
       IN [i \in 1..Len(res) |->
             IF rank_range > 0 THEN Rat(res[i].rank - min_rank, rank_range)
             ELSE ROne]

\* _search_fts: the list built from fts_results
SearchFtsResults(res, min_score) ==
  IF Len(res) = 0 THEN <<>>
  ELSE IF Len(res) = 1 THEN <<RAGResult(res[1].id, ROne, "fts")>>
  ELSE LET norm == FtsNormalized(res)
           all == [i \in 1..Len(res) |-> RAGResult(res[i].id, norm[i], "fts")]
       IN SelectSeq(all, LAMBDA r : RLeq(min_score, r.score))

\* _search_vector: the list built from vector_results
SearchVectorResults(res, min_score) ==
  LET all == [i \in 1..Len(res) |->
                RAGResult(res[i].id, RSub(ROne, res[i].distance), "vector")]
  IN SelectSeq(all, LAMBDA r : RLeq(min_score, r.score))

\* _search_hybrid: the dict fts_scores, as a function on the ids it holds
HybridFtsScores(res) ==
  IF Len(res) = 0 THEN <<>>
  ELSE IF Len(res) = 1 THEN <<ROne>>
  ELSE LET max_rank == RankMax(res)
           min_rank == RankMin(res)
           rank_range == IF max_rank > min_rank THEN max_rank - min_rank ELSE 1
       IN [i \in 1..Len(res) |->
             IF rank_range > 0 THEN Rat(res[i].rank - min_rank, rank_range)
             ELSE ROne]

Ids(res) == {res[i].id : i \in 1..Len(res)}
IndexOf(res, id) == CHOOSE i \in 1..Len(res) : res[i].id = id

\* _search_hybrid with the two weights exchanged
HybridMerged_swapped(fts, vec, dw, sw) ==
  LET fts_scores == HybridFtsScores(fts)
      fts_score(id) == IF id \in Ids(fts) THEN fts_scores[IndexOf(fts, id)] ELSE RZero
      vector_score(id) ==
        IF id \in Ids(vec) THEN RSub(ROne, vec[IndexOf(vec, id)].distance) ELSE RZero
  IN {[id |-> id,
       score |-> RAdd(RMul(sw, vector_score(id)), RMul(dw, fts_score(id)))] :
        id \in Ids(fts) \cup Ids(vec)}

\* _search_hybrid: the dict merged, chunk_id -> final_score
HybridMerged(fts, vec, dw, sw) ==
  LET fts_scores == HybridFtsScores(fts)
      all_chunk_ids == Ids(fts) \cup Ids(vec)
      fts_score(id) == IF id \in Ids(fts) THEN fts_scores[IndexOf(fts, id)] ELSE RZero
      vector_score(id) ==
        IF id \in Ids(vec) THEN RSub(ROne, vec[IndexOf(vec, id)].distance) ELSE RZero
  IN {[id |-> id,
       score |-> RAdd(RMul(dw, vector_score(id)), RMul(sw, fts_score(id)))] :
        id \in all_chunk_ids}

MergedScore(merged, id) == (CHOOSE m \in merged : m.id = id).score

\* _search_hybrid without the [:top_k] slice
HybridTopItems_all(merged, top_k) ==
  LET key == [c \in ChunkIds |->
                IF c \in {m.id : m \in merged} THEN MergedScore(merged, c) ELSE RZero]
  IN OrderedTop({m.id : m \in merged}, key, Cardinality(merged))

\* _search_hybrid sorting without reverse=True: lowest score first
HybridTopItems_ascending(merged, top_k) ==
  LET key == [c \in ChunkIds |->
                IF c \in {m.id : m \in merged}
                THEN RNeg(MergedScore(merged, c)) ELSE RZero]
  IN OrderedTop({m.id : m \in merged}, key, top_k)

\* _search_hybrid: sorted(merged.items(), reverse=True)[:top_k]; merged is
\* filled in the iteration order of a set of UUIDs, so equal scores come in
\* any order
HybridTopItems(merged, top_k) ==
  LET key == [c \in ChunkIds |->
                IF c \in {m.id : m \in merged} THEN MergedScore(merged, c) ELSE RZero]
  IN OrderedTop({m.id : m \in merged}, key, top_k)

\* _search_hybrid: the list built from top_items
HybridResults(top_items, merged, min_score) ==
  LET all == [i \in 1..Len(top_items) |->
                RAGResult(top_items[i], MergedScore(merged, top_items[i]), "hybrid")]
  IN SelectSeq(all, LAMBDA r : RLeq(min_score, r.score))

Call(kind, domain_id, limit) == [kind |-> kind, domain_id |-> domain_id, limit |-> limit]

\* values of min_score a caller passes (RAGService.search does not validate it)
MinScores == {RZero, Rat(1, 2), Rat(3, 2)}
SearchTypes == {"fts", "vector", "hybrid"}
\* (dense_weight, sparse_weight) a RAGService is built with: the default and
\* a pair that only draws the warning of __init__
WeightPairs == {<<Rat(7, 10), Rat(3, 10)>>, <<ROne, ROne>>}
\* the RAGService objects: the two weight pairs without an embedding service
\* of the caller's, and the default weights with one
RAGServices ==
  {[dense_weight |-> w[1], sparse_weight |-> w[2], embedding_service |-> "none"] :
     w \in WeightPairs}
  \cup {[dense_weight |-> Rat(7, 10), sparse_weight |-> Rat(3, 10),
         embedding_service |-> "injected"]}

NoArgs == [agent_id |-> "", top_k |-> 0, min_score |-> RZero, search_type |-> ""]
NoEmb == [created |-> 0, closed |-> 0]

\* EmbeddingService(): one more object of the call
CreateService(emb) == [emb EXCEPT !.created = @ + 1]
\* close() of the object of the call
CloseService(emb) == [emb EXCEPT !.closed = @ + 1]

\* what generate_single gives for one query, over everything the provider
\* may do on its attempts
SingleOutcomes ==
  {generate_single(1, run, MAX_RETRIES) : run \in ProviderRuns(<<1>>, MAX_RETRIES)}
EmbeddingMayReturn == \E out \in SingleOutcomes : out.status = "ok"
EmbeddingMayRaise == \E out \in SingleOutcomes : out.status # "ok"

\* a handler that swallows the exception and lets the call return
Propagate_swallowed == "returned"

\* how a call ends when one of its steps raises and no handler of the call
\* catches it: the exception reaches the caller
Propagate == "raised"

\* _search_vector, _search_hybrid: "self._embedding_service or
\* EmbeddingService()", generate_single, and the finally that closes the
\* object if it was created here
SearchEmbedding(service) ==
  IF service = "none" THEN CloseService(CreateService(NoEmb)) ELSE NoEmb

\* the steps of RAGService.search that can raise, in the order they run
SearchSteps(search_type, service) ==
  IF search_type = "fts" THEN <<"domain", "fts">>
  ELSE (IF service = "none" THEN <<"domain", "embedding_init">> ELSE <<"domain">>)
       \o (IF search_type = "vector" THEN <<"embedding", "vector">>
           ELSE <<"embedding", "fts", "vector">>)

\* position of step in steps
StepIndex(steps, step) == CHOOSE i \in 1..Len(steps) : steps[i] = step

\* store searches issued up to and including the step that raised
CallsUpTo(steps, step, domain_id, limit) ==
  {Call(steps[i], domain_id, limit) :
     i \in {j \in 1..StepIndex(steps, step) : steps[j] \in {"fts", "vector"}}}

\* RAGService(uow, embedding_service, dense_weight, sparse_weight): the
\* service a search is called on is built for that search
BuildService ==
  \E service \in RAGServices :
    /\ dense_weight' = service.dense_weight
    /\ sparse_weight' = service.sparse_weight
    /\ embedding_service' = service.embedding_service

\* RAGService.search, the slug names no domain: ValueError before any search
SearchUnknownDomain ==
  /\ r_pc = "idle" /\ a_pc = "idle" /\ t_pc = "idle"
  /\ BuildService
  /\ \E agent_id \in Slugs, top_k \in 1..MaxTopK, min_score \in MinScores,
        search_type \in SearchTypes :
       /\ get_by_slug(agent_id) = NoDomain
       /\ r_in' = [agent_id |-> agent_id, top_k |-> top_k,
                   min_score |-> min_score, search_type |-> search_type]
  /\ r_pc' = Propagate
  /\ r_err' = "domain_not_found"
  /\ UNCHANGED <<nonstore_vars, r_fts, r_vec, r_fts_scores, r_merged, r_out, r_calls, r_emb,
                 a_vars, t_vars>>
  /\ db_chunks' = search_uow_exit(db_chunks, TRUE)

\* RAGService.search, one step raises (the domain lookup, EmbeddingService(),
\* generate_single, a store search): nothing in search, _search_fts,
\* _search_vector or _search_hybrid catches it
SearchFailed ==
  /\ r_pc = "idle" /\ a_pc = "idle" /\ t_pc = "idle"
  /\ BuildService
  /\ \E agent_id \in Slugs, top_k \in 1..MaxTopK, min_score \in MinScores,
        search_type \in SearchTypes :
       LET domain_id == get_by_slug(agent_id)
           steps == SearchSteps(search_type, embedding_service')
           limit == IF search_type = "hybrid" THEN top_k * 2 ELSE top_k
       IN
       \E k \in 1..Len(steps) :
         LET step == steps[k] IN
         /\ step # "domain" => domain_id # NoDomain
         /\ step = "embedding" => EmbeddingMayRaise
         /\ r_err' = step
         /\ r_calls' = CallsUpTo(steps, step, domain_id, limit)
         /\ r_emb' = IF step \in {"embedding", "fts", "vector"} /\ search_type # "fts"
                     THEN SearchEmbedding(embedding_service') ELSE NoEmb
         /\ r_in' = [agent_id |-> agent_id, top_k |-> top_k,
                     min_score |-> min_score, search_type |-> search_type]
  /\ r_pc' = Propagate
  /\ UNCHANGED <<nonstore_vars, r_fts, r_vec, r_fts_scores, r_merged, r_out, a_vars, t_vars>>
  /\ db_chunks' = search_uow_exit(db_chunks, TRUE)

\* RAGService.search(search_type="fts")
SearchFts ==
  /\ r_pc = "idle" /\ a_pc = "idle" /\ t_pc = "idle"
  /\ BuildService
  /\ \E agent_id \in Slugs, top_k \in 1..MaxTopK, min_score \in MinScores :
       LET domain_id == get_by_slug(agent_id) IN
       /\ domain_id # NoDomain
       /\ \E rk \in RankFns : \E res \in search_fts(rk, domain_id, top_k) :
            /\ r_fts' = res
            /\ r_fts_scores' = IF Len(res) = 0 THEN <<>> ELSE FtsNormalized(res)
            /\ r_out' = SearchFtsResults(res, min_score)
       /\ r_calls' = {Call("fts", domain_id, top_k)}
       /\ r_in' = [agent_id |-> agent_id, top_k |-> top_k,
                   min_score |-> min_score, search_type |-> "fts"]
  /\ r_pc' = "returned"
  /\ UNCHANGED <<nonstore_vars, r_vec, r_merged, r_err, r_emb, a_vars, t_vars>>
  /\ db_chunks' = search_uow_exit(db_chunks, FALSE)

\* RAGService.search(search_type="vector")
SearchVector ==
  /\ r_pc = "idle" /\ a_pc = "idle" /\ t_pc = "idle"
  /\ BuildService
  /\ EmbeddingMayReturn
  /\ \E agent_id \in Slugs, top_k \in 1..MaxTopK, min_score \in MinScores :
       LET domain_id == get_by_slug(agent_id) IN
       /\ domain_id # NoDomain
       /\ \E ds \in DistFns : \E res \in search_vector(ds, domain_id, top_k, min_score) :
            /\ r_vec' = res
            /\ r_out' = SearchVectorResults(res, min_score)
       /\ r_calls' = {Call("vector", domain_id, top_k)}
       /\ r_in' = [agent_id |-> agent_id, top_k |-> top_k,
                   min_score |-> min_score, search_type |-> "vector"]
  /\ r_emb' = SearchEmbedding(embedding_service')
  /\ r_pc' = "returned"
  /\ UNCHANGED <<nonstore_vars, r_fts, r_fts_scores, r_merged, r_err, a_vars, t_vars>>
  /\ db_chunks' = search_uow_exit(db_chunks, FALSE)

\* RAGService.search(search_type="hybrid")
SearchHybrid ==
  /\ r_pc = "idle" /\ a_pc = "idle" /\ t_pc = "idle"
  /\ BuildService
  /\ EmbeddingMayReturn
  /\ \E agent_id \in Slugs, top_k \in 1..MaxTopK, min_score \in MinScores :
       LET domain_id == get_by_slug(agent_id)
           search_limit == top_k * 2
       IN
       /\ domain_id # NoDomain
       /\ \E rk \in RankFns, ds \in DistFns :
            \E fts \in search_fts(rk, domain_id, search_limit),
               vec \in search_vector(ds, domain_id, search_limit, RZero) :
              LET merged == HybridMerged(fts, vec, dense_weight', sparse_weight') IN
              /\ r_fts' = fts
              /\ r_vec' = vec
              /\ r_fts_scores' = HybridFtsScores(fts)
              /\ r_merged' = merged
              /\ \E top_items \in HybridTopItems(merged, top_k) :
                   r_out' = HybridResults(top_items, merged, min_score)
       /\ r_calls' = {Call("fts", domain_id, search_limit),
                      Call("vector", domain_id, search_limit)}
       /\ r_in' = [agent_id |-> agent_id, top_k |-> top_k,
                   min_score |-> min_score, search_type |-> "hybrid"]
  /\ r_emb' = SearchEmbedding(embedding_service')
  /\ r_pc' = "returned"
  /\ UNCHANGED <<nonstore_vars, r_err, a_vars, t_vars>>
  /\ db_chunks' = search_uow_exit(db_chunks, FALSE)

\* the caller takes the result (or the exception); the service is reusable
SearchDone ==
  /\ r_pc \in {"returned", "raised"}
  /\ r_pc' = "idle"
  /\ r_in' = NoArgs
  /\ r_fts' = <<>>
  /\ r_vec' = <<>>
  /\ r_fts_scores' = <<>>
  /\ r_merged' = {}
  /\ r_out' = <<>>
  /\ r_calls' = {}
  /\ r_err' = ""
  /\ r_emb' = NoEmb
  /\ dense_weight' = RZero
  /\ sparse_weight' = RZero
  /\ embedding_service' = "none"
  /\ UNCHANGED <<nonsearch_vars, a_vars, t_vars>>

\* ------------------------------------- search.hybrid_search (Mode A)
\* a RAGChunk tagged by the signal of a vector hit
RAGChunk_dense(id, score) == [chunk_id |-> id, score |-> score, search_type |-> "dense"]

RAGChunk(id, score) == [chunk_id |-> id, score |-> score, search_type |-> "hybrid"]

Hit(id, kind, score) == [id |-> id, kind |-> kind, score |-> score]

\* the dedup with the comparison turned round: the lower score stays
Upsert_keeps_lower(all, id, score) ==
  IF \E i \in 1..Len(all) : all[i].id = id
  THEN [i \in 1..Len(all) |->
          IF all[i].id = id /\ RLt(score, all[i].score)
          THEN [id |-> id, score |-> score] ELSE all[i]]
  ELSE Append(all, [id |-> id, score |-> score])

\* hybrid_search: one chunk into all_results; a chunk already there keeps its
\* place and takes the new score only if it is greater
Upsert(all, id, score) ==
  IF \E i \in 1..Len(all) : all[i].id = id
  THEN [i \in 1..Len(all) |->
          IF all[i].id = id /\ RLt(all[i].score, score)
          THEN [id |-> id, score |-> score] ELSE all[i]]
  ELSE Append(all, [id |-> id, score |-> score])

\* the scored results of one sub-query, in order, into all_results
RECURSIVE UpsertAll(_, _)
UpsertAll(all, scored) ==
  IF Len(scored) = 0 THEN all
  ELSE UpsertAll(Upsert(all, scored[1].id, scored[1].score), Tail(scored))

\* hybrid_search: score = 1.0 - distance of every vector result
VectorScored(res) ==
  [i \in 1..Len(res) |-> [id |-> res[i].id, score |-> RSub(ROne, res[i].distance)]]

\* hybrid_search: the normalized score of every result of one FTS query
FtsScored(res) ==
  IF Len(res) = 0 THEN <<>>
  ELSE IF Len(res) = 1 THEN <<[id |-> res[1].id, score |-> ROne]>>
  ELSE LET max_rank == RankMax(res)
           min_rank == RankMin(res)
           rank_range == IF max_rank > min_rank THEN max_rank - min_rank ELSE 1
       IN [i \in 1..Len(res) |->
             [id |-> res[i].id,
              score |-> IF rank_range > 0 THEN Rat(res[i].rank - min_rank, rank_range)
                        ELSE ROne]]

\* list.sort / sorted(..., reverse=True): descending by score, equal scores
\* keep their order
RECURSIVE StableSortDesc(_)
StableSortDesc(s) ==
  IF Len(s) <= 1 THEN s
  ELSE LET init == StableSortDesc(SubSeq(s, 1, Len(s) - 1))
           x == s[Len(s)]
           k == Cardinality({i \in 1..Len(init) : RLeq(x.score, init[i].score)})
       IN SubSeq(init, 1, k) \o <<x>> \o SubSeq(init, k + 1, Len(init))

\* hybrid_search: sorted_results turned into RAGChunk objects
SortedChunks(all) ==
  LET sorted_results == StableSortDesc(all)
  IN [i \in 1..Len(sorted_results) |->
        RAGChunk(sorted_results[i].id, sorted_results[i].score)]

NoModeAArgs == [domain |-> "", top_k_per_query |-> 0]
NoToolArgs == [final_top_k |-> 0, min_score |-> RZero, use_reranker |-> FALSE]
NoToolResult ==
  [chunks |-> <<>>, total_found |-> 0, failed |-> FALSE,
   formatted_context |-> <<>>]

\* close() placed after the body instead of in a finally: skipped when the
\* body raises
ModeAFinally_on_return(emb, raised) == IF raised THEN emb ELSE CloseService(emb)

\* hybrid_search: "finally: await embedding_service.close()"
ModeAFinally(emb, raised) == CloseService(emb)

\* what can raise in hybrid_search before the first sub-query: "" (nothing),
\* EmbeddingService() (no API key), the domain lookup in the store
StartFailures == {"", "embedding_init", "domain"}

ModeAIdle ==
  /\ a_pc' = "idle"
  /\ a_in' = NoModeAArgs
  /\ a_domain_id' = NoDomain
  /\ a_vleft' = 0
  /\ a_fleft' = 0
  /\ a_all' = <<>>
  /\ a_out' = <<>>
  /\ a_hits' = {}
  /\ a_last' = <<>>
  /\ a_calls' = {}
  /\ a_err' = ""
  /\ a_emb' = NoEmb

\* hybrid_search up to the first sub-query: EmbeddingService(), then the
\* domain lookup inside the try
ModeAStart(domain, top_k_per_query, nv, nf, fail) ==
  LET domain_obj == IF fail = "" THEN get_by_slug(domain) ELSE NoDomain
      err == IF fail # "" THEN fail
             ELSE IF domain_obj = NoDomain THEN "domain_not_found" ELSE ""
      created == IF fail = "embedding_init" THEN NoEmb ELSE CreateService(NoEmb)
  IN
  /\ a_pc = "idle" /\ r_pc = "idle"
  /\ a_in' = [domain |-> domain, top_k_per_query |-> top_k_per_query]
  /\ a_pc' = IF err # "" THEN Propagate ELSE "queries"
  /\ a_err' = err
  /\ a_emb' = IF err = "" \/ fail = "embedding_init" THEN created
              ELSE ModeAFinally(created, TRUE)
  /\ a_domain_id' = domain_obj
  /\ a_vleft' = IF err # "" THEN 0 ELSE nv
  /\ a_fleft' = IF err # "" THEN 0 ELSE nf
  /\ UNCHANGED <<a_all, a_out, a_hits, a_last, a_calls>>
  /\ db_chunks' = search_uow_exit(db_chunks, err # "")

\* a direct call of search.hybrid_search
ModeACall ==
  /\ t_pc = "idle"
  /\ \E domain \in Slugs, top_k_per_query \in 1..MaxTopK,
        nv \in 0..MaxQueries, nf \in 0..MaxQueries, fail \in StartFailures :
       /\ nv + nf <= MaxQueries
       /\ ModeAStart(domain, top_k_per_query, nv, nf, fail)
  /\ UNCHANGED <<nonstore_vars, rag_vars, t_vars>>

\* one pass of "for vq in vector_queries"
ModeAVectorQuery ==
  /\ a_pc = "queries"
  /\ a_vleft > 0
  /\ EmbeddingMayReturn
  /\ \E ds \in DistFns :
       \E res \in search_vector(ds, a_domain_id, a_in.top_k_per_query, RZero) :
         LET scored == VectorScored(res) IN
         /\ a_all' = UpsertAll(a_all, scored)
         /\ a_hits' = a_hits \cup
              {Hit(scored[i].id, "vector", scored[i].score) : i \in 1..Len(scored)}
  /\ a_calls' = a_calls \cup {Call("vector", a_domain_id, a_in.top_k_per_query)}
  /\ a_vleft' = a_vleft - 1
  /\ UNCHANGED <<nonstore_vars, rag_vars, t_vars, a_pc, a_in, a_domain_id, a_fleft,
                 a_out, a_last, a_err, a_emb>>
  /\ db_chunks' = search_uow_exit(db_chunks, FALSE)

\* one pass of "for fq in fts_queries"
ModeAFtsQuery ==
  /\ a_pc = "queries"
  /\ a_vleft = 0
  /\ a_fleft > 0
  /\ \E rk \in RankFns :
       \E res \in search_fts(rk, a_domain_id, a_in.top_k_per_query) :
         LET scored == FtsScored(res) IN
         /\ a_all' = UpsertAll(a_all, scored)
         /\ a_hits' = a_hits \cup
              {Hit(scored[i].id, "fts", scored[i].score) : i \in 1..Len(scored)}
         /\ a_last' = [i \in 1..Len(res) |->
                        [id |-> res[i].id, rank |-> res[i].rank, score |-> scored[i].score]]
  /\ a_calls' = a_calls \cup {Call("fts", a_domain_id, a_in.top_k_per_query)}
  /\ a_fleft' = a_fleft - 1
  /\ UNCHANGED <<nonstore_vars, rag_vars, t_vars, a_pc, a_in, a_domain_id, a_vleft,
                 a_out, a_err, a_emb>>
  /\ db_chunks' = search_uow_exit(db_chunks, FALSE)

\* the pass that is due raises (generate_single or search_vector of a vector
\* query, search_fts of an FTS query): the try has no except, the finally
\* closes the embedding service, all_results is dropped with the frame
ModeAQueryFailed ==
  /\ a_pc = "queries"
  /\ \E step \in {"embedding", "vector", "fts"} :
       /\ step \in {"embedding", "vector"} => a_vleft > 0
       /\ step = "embedding" => EmbeddingMayRaise
       /\ step = "fts" => a_vleft = 0 /\ a_fleft > 0
       /\ a_err' = step
       /\ a_calls' = IF step = "embedding" THEN a_calls
                     ELSE a_calls \cup {Call(step, a_domain_id, a_in.top_k_per_query)}
  /\ a_pc' = Propagate
  /\ a_emb' = ModeAFinally(a_emb, TRUE)
  /\ a_all' = <<>>
  /\ a_hits' = {}
  /\ a_last' = <<>>
  /\ UNCHANGED <<nonstore_vars, rag_vars, t_vars, a_in, a_domain_id, a_vleft, a_fleft,
                 a_out>>
  /\ db_chunks' = search_uow_exit(db_chunks, TRUE)

\* both loops are over: sort and return
ModeAReturn ==
  /\ a_pc = "queries"
  /\ a_vleft = 0
  /\ a_fleft = 0
  /\ a_out' = SortedChunks(a_all)
  /\ a_pc' = "returned"
  /\ a_emb' = ModeAFinally(a_emb, FALSE)
  /\ UNCHANGED <<nonsearch_vars, rag_vars, t_vars, a_in, a_domain_id, a_vleft, a_fleft,
                 a_all, a_hits, a_last, a_calls, a_err>>

\* the direct caller takes the list (or the exception)
ModeADone ==
  /\ t_pc = "idle"
  /\ a_pc \in {"returned", "raised"}
  /\ ModeAIdle
  /\ UNCHANGED <<nonsearch_vars, rag_vars, t_vars>>

\* ---------------------------------------------------- context assembly
\* a string is modelled as the sequence of the pieces it is put together
\* from; "\n\n" is the piece BlankLine
BlankLine == "\\n\\n"
\* the label used for a result without header
FallbackLabel == "Informatsiya"
\* the text get_context puts after the header
KnowledgeBaseSuffix == " (iz bazy znaniy)"

\* header values of a result: None, the empty string, a title
Headers == {"None", "", "Title"}

\* "header or ..." : None and the empty string are both falsy
HeaderOr(header, label) == IF header \in {"None", ""} THEN label ELSE header

\* str.join without the separator
join_no_separator(sep, parts) ==
  IF Len(parts) = 0 THEN <<>>
  ELSE LET RECURSIVE cat(_)
           cat(i) == IF i > Len(parts) THEN <<>> ELSE parts[i] \o cat(i + 1)
       IN cat(1)

\* sep.join(parts)
join(sep, parts) ==
  IF Len(parts) = 0 THEN <<>>
  ELSE LET RECURSIVE cat(_)
           cat(i) == IF i = Len(parts) THEN parts[i]
                     ELSE parts[i] \o <<sep>> \o cat(i + 1)
       IN cat(1)

\* tools.hybrid_search, step 4: formatted_context of filtered_chunks
formatted_context(chunks) ==
  LET context_parts ==
        [i \in 1..Len(chunks) |->
           <<"## ", HeaderOr(chunks[i].header, FallbackLabel), BlankLine,
             chunks[i].content>>]
  IN IF Len(context_parts) > 0 THEN join(BlankLine, context_parts) ELSE <<>>

\* header and content of the RAGChunk objects of a list: those of the stored
\* chunk (chunk 1 has no header)
Rendered(chunks) ==
  [i \in 1..Len(chunks) |->
     [header |-> IF chunks[i].chunk_id = 1 THEN "None" ELSE "header",
      content |-> chunks[i].chunk_id]]

\* the text in front of the error message
ErrorPrefix == "Oshibka poiska: "

\* an except branch that handles the errors of the search only
tool_except_search_only(e) ==
  [pc |-> IF e \in {"reranker", "formatting"} THEN "raised" ELSE "returned",
   out |-> [chunks |-> <<>>, total_found |-> 0, failed |-> TRUE,
            formatted_context |-> <<ErrorPrefix, e>>]]

\* tools.hybrid_search, "except Exception as e": the empty result with the
\* message of e in formatted_context is returned
tool_except(e) ==
  [pc |-> "returned",
   out |-> [chunks |-> <<>>, total_found |-> 0, failed |-> TRUE,
            formatted_context |-> <<ErrorPrefix, e>>]]

\* ------------------------------------------ Reranker and the MCP tool
\* scores the cross-encoder gives: CrossEncoder.predict is not bounded by
\* the code
ModelScores == {Rat(-1, 1), Rat(1, 2), Rat(2, 1)}
\* min_score of HybridSearchInput: ge=0.0, le=1.0
ToolMinScores == {Rat(k, 2) : k \in 0..2}

\* the new score averaged with the score the chunk came with
rerank_blended(chunks, scores, top_k) ==
  IF Len(chunks) = 0 THEN <<>>
  ELSE LET reranked == [i \in 1..Len(chunks) |->
                          [chunks[i] EXCEPT !.score = RMul(Rat(1, 2), RAdd(@, scores[i]))]]
           sorted == StableSortDesc(reranked)
       IN SubSeq(sorted, 1, Min2(top_k, Len(sorted)))

\* Reranker.rerank: new scores, sorted descending, the first top_k
rerank(chunks, scores, top_k) ==
  IF Len(chunks) = 0 THEN <<>>
  ELSE LET reranked == [i \in 1..Len(chunks) |->
                          [chunks[i] EXCEPT !.score = scores[i]]]
           sorted == StableSortDesc(reranked)
       IN SubSeq(sorted, 1, Min2(top_k, Len(sorted)))

\* tools.hybrid_search: chunks after step 2 (rerank, or the first final_top_k)
ToolTopChunks(chunks, scores, use_reranker, final_top_k) ==
  IF use_reranker /\ Len(chunks) > 0
  THEN rerank(chunks, scores, final_top_k)
  ELSE SubSeq(chunks, 1, Min2(final_top_k, Len(chunks)))

\* tools.hybrid_search: filtered_chunks
ToolFiltered(chunks, min_score) ==
  SelectSeq(chunks, LAMBDA c : RLeq(min_score, c.score))

\* tools.hybrid_search is called with a validated HybridSearchInput: at least
\* one vector query and one FTS keyword
ToolCall ==
  /\ t_pc = "idle"
  /\ \E domain \in Slugs, top_k_per_query \in 1..MaxTopK,
        nv \in 1..MaxQueries, nf \in 1..MaxQueries, fail \in StartFailures :
       /\ nv + nf <= MaxQueries
       /\ ModeAStart(domain, top_k_per_query, nv, nf, fail)
  /\ t_pc' = "searching"
  /\ UNCHANGED <<nonstore_vars, rag_vars, t_in, t_chunks, t_out>>

\* do_hybrid_search returned: step 2, rerank or take the first final_top_k
ToolRerank ==
  /\ t_pc = "searching"
  /\ a_pc = "returned"
  /\ \E final_top_k \in 1..MaxTopK :
       \/ /\ Len(a_out) > 0
          /\ \E scores \in [1..Len(a_out) -> ModelScores] :
               t_chunks' = ToolTopChunks(a_out, scores, TRUE, final_top_k)
          /\ t_in' = [t_in EXCEPT !.final_top_k = final_top_k, !.use_reranker = TRUE]
       \/ \E use_reranker \in BOOLEAN :
            /\ ~(use_reranker /\ Len(a_out) > 0)
            /\ t_chunks' = ToolTopChunks(a_out, <<>>, use_reranker, final_top_k)
            /\ t_in' = [t_in EXCEPT !.final_top_k = final_top_k,
                                    !.use_reranker = use_reranker]
  /\ t_pc' = "filter"
  /\ ModeAIdle
  /\ UNCHANGED <<nonsearch_vars, rag_vars, t_out>>

\* steps 3 and 4: filter by min_score, build the RAGSearchResult
ToolFinish ==
  /\ t_pc = "filter"
  /\ \E min_score \in ToolMinScores :
       LET filtered_chunks == ToolFiltered(t_chunks, min_score) IN
       /\ t_in' = [t_in EXCEPT !.min_score = min_score]
       /\ t_out' = [chunks |-> filtered_chunks,
                    total_found |-> Len(filtered_chunks), failed |-> FALSE,
                    formatted_context |->
                      formatted_context(Rendered(filtered_chunks))]
  /\ t_pc' = "returned"
  /\ UNCHANGED <<nonsearch_vars, rag_vars, a_vars, t_chunks>>

\* do_hybrid_search raised: the except branch returns an empty result
ToolFailed ==
  /\ t_pc = "searching"
  /\ a_pc = "raised"
  /\ t_out' = tool_except(a_err).out
  /\ t_pc' = tool_except(a_err).pc
  /\ ModeAIdle
  /\ UNCHANGED <<nonsearch_vars, rag_vars, t_in, t_chunks>>

\* get_reranker() or reranker.rerank raises: the model cannot be loaded, or
\* predict fails
ToolRerankFailed ==
  /\ t_pc = "searching"
  /\ a_pc = "returned"
  /\ Len(a_out) > 0
  /\ \E final_top_k \in 1..MaxTopK :
       t_in' = [t_in EXCEPT !.final_top_k = final_top_k, !.use_reranker = TRUE]
  /\ t_out' = tool_except("reranker").out
  /\ t_pc' = tool_except("reranker").pc
  /\ ModeAIdle
  /\ UNCHANGED <<nonsearch_vars, rag_vars, t_chunks>>

\* a statement of steps 3 and 4 raises
ToolFormatFailed ==
  /\ t_pc = "filter"
  /\ t_out' = tool_except("formatting").out
  /\ t_pc' = tool_except("formatting").pc
  /\ UNCHANGED <<nonsearch_vars, rag_vars, a_vars, t_in, t_chunks>>

\* call_tool takes the result
ToolDone ==
  /\ t_pc = "returned"
  /\ t_pc' = "idle"
  /\ t_in' = NoToolArgs
  /\ t_chunks' = <<>>
  /\ t_out' = NoToolResult
  /\ UNCHANGED <<nonsearch_vars, rag_vars, a_vars>>

\* ------------------------------------------- IngestService.ingest_agent
Runs == 1..MaxRuns

\* domains.google_doc_url: set for "products", NULL for "compatibility"
DocUrls == [products |-> TRUE, compatibility |-> FALSE]
has_google_doc_url(slug) == slug \in DOMAIN DocUrls /\ DocUrls[slug]

\* HTMLParser.parse: without h1 the whole body as one section, whatever its
\* content; with h1 tags the sections whose stripped content is not empty
\* (none, if every section is empty)
ParserOutputs(max) ==
  {<<>>}
  \cup {Sections(<<k>>) : k \in {"empty", "small", "exact", "large"}}
  \cup UNION {{Sections(kinds) : kinds \in [1..n -> {"small", "large"}]} : n \in 2..max}

\* a run: service is self._embedding_service of its IngestService ("none" or
\* "injected"), recorded at step 5, the one place that reads it
IdleRun ==
  [pc |-> "idle", agent_id |-> "", service |-> "none", domain_id |-> NoDomain,
   sections |-> <<>>, chunks |-> <<>>, embeddings |-> <<>>, err |-> "",
   emb |-> NoEmb, tx |-> NoTx, before |-> {}, batch |-> 0, calls |-> {}]

\* ingest_agent raises IngestError from step err
Raised(run, err) == [run EXCEPT !.pc = "raised", !.err = err]

\* the check "if not chunks" left out
NoChunks_unchecked(chunks) == FALSE

\* ingest_agent: "if not chunks"
NoChunks(chunks) == Len(chunks) = 0

\* texts = [chunk.content for chunk in chunks]
Texts(chunks) == [i \in 1..Len(chunks) |-> chunks[i].content]

\* ingest_agent: "finally: if self._embedding_service is None: close()"
IngestFinally(emb, service, raised) ==
  IF service = "none" THEN CloseService(emb) ELSE emb

\* the id (uuid4) of chunk i of document version batch
NewId(batch, i) == NChunks + (batch - 1) * MAX_BATCH_SIZE + i

\* chunks_data: zip(chunks, embeddings), each chunk.to_dict(domain_id) with
\* its embedding, as the rows create_batch adds
chunks_data(chunks, embeddings, domain_id, batch) ==
  {[id |-> NewId(batch, i), domain_id |-> domain_id, has_embedding |-> TRUE,
    chunk_index |-> chunks[i].chunk_index, batch |-> batch,
    content |-> chunks[i].content, embedding_of |-> embeddings[i].text] :
     i \in 1..Min2(Len(chunks), Len(embeddings))}

\* step 1, the domain lookup in a transaction of its own
IngestStart(r) ==
  /\ ingest[r].pc = "idle"
  /\ next_batch <= MaxBatches
  /\ \E agent_id \in Slugs, failed \in BOOLEAN :
       LET domain_id == get_by_slug(agent_id)
           run == [ingest[r] EXCEPT !.agent_id = agent_id,
                                    !.before = db_chunks, !.batch = next_batch]
       IN ingest' = [ingest EXCEPT ![r] =
            IF failed THEN Raised(run, "domain_lookup")
            ELSE IF domain_id = NoDomain THEN Raised(run, "domain_not_found")
            ELSE IF ~has_google_doc_url(agent_id) THEN Raised(run, "no_google_doc_url")
            ELSE [run EXCEPT !.pc = "load", !.domain_id = domain_id]]
  /\ next_batch' = next_batch + 1
  /\ UNCHANGED <<db_chunks, search_vars, x_vars, c_vars, e_vars>>

\* a document of one section more than a batch has texts, each section large
\* enough to be a chunk
LargeDocument == Sections([i \in 1..(MAX_BATCH_SIZE + 1) |-> "large"])

\* steps 2 to 4: load the document, parse it, chunk it
IngestChunk(r) ==
  /\ ingest[r].pc = "load"
  /\ \/ \E err \in {"load", "parse"} :
          ingest' = [ingest EXCEPT ![r] = Raised(@, err)]
     \/ \E sections \in ParserOutputs(MaxIngestSections) \cup {LargeDocument} :
          LET chunks == chunk_sections(sections, MIN_CHUNK_SIZE)
              run == [ingest[r] EXCEPT !.sections = sections, !.chunks = chunks]
          IN ingest' = [ingest EXCEPT ![r] =
               IF NoChunks(chunks) THEN Raised(run, "no_chunks")
               ELSE [run EXCEPT !.pc = "embed"]]
  /\ UNCHANGED <<db_chunks, next_batch, search_vars, x_vars, c_vars, e_vars>>

\* what generate_batch gives for a batch of n texts, over everything the
\* provider may do on its attempts (the texts numbered 1..n)
BatchOutcomes ==
  [n \in (0..MaxIngestSections) \cup {Len(LargeDocument)} |->
     {generate_batch([i \in 1..n |-> i], responses, MAX_RETRIES) :
        responses \in ProviderRuns([i \in 1..n |-> i], MAX_RETRIES)}]

\* the vectors of an outcome as embeddings of the texts themselves
EmbeddingsOf(out, texts) ==
  [i \in 1..Len(out.embeddings) |->
     Embedding(texts[out.embeddings[i].text], out.embeddings[i].dim)]

\* step 5: the embeddings of all chunks in one generate_batch call
IngestEmbed(r) ==
  /\ ingest[r].pc = "embed"
  /\ \E service \in {"none", "injected"} :
     LET run == [ingest[r] EXCEPT !.service = service]
         texts == Texts(run.chunks)
     IN
     \/ /\ service = "none"
        /\ ingest' = [ingest EXCEPT ![r] = Raised(run, "embedding_init")]
     \/ \E out \in BatchOutcomes[Len(texts)] :
          LET created == IF run.service = "none" THEN CreateService(run.emb)
                         ELSE run.emb
              emb == IngestFinally(created, run.service, out.status # "ok")
          IN ingest' = [ingest EXCEPT ![r] =
               IF out.status # "ok" THEN Raised([run EXCEPT !.emb = emb], "embedding")
               ELSE [run EXCEPT !.pc = "save", !.emb = emb,
                                !.embeddings = EmbeddingsOf(out, texts)]]
  /\ UNCHANGED <<db_chunks, next_batch, search_vars, x_vars, c_vars, e_vars>>

\* step 7, "async with self._uow", delete_by_domain: the DELETE statement
\* starts and sees the committed rows of the domain
IngestDeleteBegin(r) ==
  /\ ingest[r].pc = "save"
  /\ ingest' = [ingest EXCEPT ![r] =
       [@ EXCEPT !.pc = "deleting",
                 !.calls = @ \cup {"delete_by_domain"},
                 !.tx = [@ EXCEPT !.snapshot =
                           {c.id : c \in InDomain(db_chunks, ingest[r].domain_id)}]]]
  /\ UNCHANGED <<db_chunks, next_batch, search_vars, x_vars, c_vars, e_vars>>

\* the DELETE statement ends: it waits while another transaction holds a row
\* it saw as deleted and not committed; rows gone by then are skipped
IngestDeleteEnd(r) ==
  /\ ingest[r].pc = "deleting"
  /\ LET live == {c.id : c \in db_chunks} IN
     \/ /\ \A o \in Runs \ {r} :
             ingest[o].tx.deleted \cap ingest[r].tx.snapshot \cap live = {}
        /\ ingest' = [ingest EXCEPT ![r] =
             [@ EXCEPT !.pc = "insert",
                       !.tx = [@ EXCEPT !.deleted = ingest[r].tx.snapshot \cap live]]]
        /\ db_chunks' = db_chunks
     \/ /\ ingest' = [ingest EXCEPT ![r] = Raised([@ EXCEPT !.tx = NoTx], "delete")]
        /\ db_chunks' = UowExit(db_chunks, ingest[r].tx, TRUE)
  /\ UNCHANGED <<next_batch, search_vars, x_vars, c_vars, e_vars>>

\* create_batch: add_all and flush
IngestInsert(r) ==
  /\ ingest[r].pc = "insert"
  /\ LET run == [ingest[r] EXCEPT !.calls = @ \cup {"create_batch"}]
         rows == chunks_data(run.chunks, run.embeddings, run.domain_id, run.batch)
         tx == [run.tx EXCEPT !.inserted = rows]
     IN
     \/ /\ ingest' = [ingest EXCEPT ![r] = [run EXCEPT !.pc = "commit", !.tx = tx]]
        /\ db_chunks' = db_chunks
     \/ /\ ingest' = [ingest EXCEPT ![r] = Raised([run EXCEPT !.tx = NoTx], "insert")]
        /\ db_chunks' = UowExit(db_chunks, run.tx, TRUE)
  /\ UNCHANGED <<next_batch, search_vars, x_vars, c_vars, e_vars>>

\* self._uow.commit(), the end of the with block, the IngestResult
IngestCommit(r) ==
  /\ ingest[r].pc = "commit"
  /\ LET run == [ingest[r] EXCEPT !.calls = @ \cup {"commit"}] IN
     \/ /\ ingest' = [ingest EXCEPT ![r] = [run EXCEPT !.pc = "returned", !.tx = NoTx]]
        /\ db_chunks' = UowExit(Commit(db_chunks, run.tx), NoTx, FALSE)
     \/ /\ ingest' = [ingest EXCEPT ![r] = Raised([run EXCEPT !.tx = NoTx], "commit")]
        /\ db_chunks' = UowExit(db_chunks, run.tx, TRUE)
  /\ UNCHANGED <<next_batch, search_vars, x_vars, c_vars, e_vars>>

\* the caller takes the IngestResult (or the IngestError); the process ends
IngestDone(r) ==
  /\ ingest[r].pc \in {"returned", "raised"}
  /\ ingest' = [ingest EXCEPT ![r] = IdleRun]
  /\ UNCHANGED <<db_chunks, next_batch, search_vars, x_vars, c_vars, e_vars>>

\* ------------------------------ chunk_sections and generate_batch alone
\* a call of Chunker.chunk_sections with any list of up to MaxSections
\* sections
ChunkCall ==
  /\ c_pc = "idle"
  /\ \E n \in 0..MaxSections : \E kinds \in [1..n -> SectionKinds] :
       /\ c_in' = Sections(kinds)
       /\ c_out' = chunk_sections(Sections(kinds), MIN_CHUNK_SIZE)
  /\ c_pc' = "returned"
  /\ UNCHANGED <<db_chunks, search_vars, x_vars, i_vars, e_vars>>

ChunkDone ==
  /\ c_pc = "returned"
  /\ c_pc' = "idle"
  /\ c_in' = <<>>
  /\ c_out' = <<>>
  /\ UNCHANGED <<db_chunks, search_vars, x_vars, i_vars, e_vars>>

\* the batch sizes tried: none, few, and those around MAX_BATCH_SIZE
BatchSizes == {0, 1, 2, MAX_BATCH_SIZE - 1, MAX_BATCH_SIZE, MAX_BATCH_SIZE + 1}

NoEmbedArgs == [texts |-> <<>>, responses |-> <<>>, max_retries |-> 0]
NoEmbedResult == [status |-> "", embeddings |-> <<>>, calls |-> 0, error |-> ""]

\* a call of generate_batch on an EmbeddingService(max_retries=...), the
\* provider doing on each attempt whatever it may
EmbedCall ==
  /\ e_pc = "idle"
  /\ \E n \in BatchSizes, max_retries \in 1..MAX_RETRIES :
       LET texts == [i \in 1..n |-> i] IN
       \E responses \in ProviderRuns(texts, max_retries) :
         /\ e_in' = [texts |-> texts, responses |-> responses,
                     max_retries |-> max_retries]
         /\ e_out' = generate_batch(texts, responses, max_retries)
  /\ e_pc' = "done"
  /\ UNCHANGED <<db_chunks, search_vars, x_vars, i_vars, c_vars>>

EmbedDone ==
  /\ e_pc = "done"
  /\ e_pc' = "idle"
  /\ e_in' = NoEmbedArgs
  /\ e_out' = NoEmbedResult
  /\ UNCHANGED <<db_chunks, search_vars, x_vars, i_vars, c_vars>>

\* -------------------------------------------------- Reranker.rerank alone
\* the RAGChunk a search returned for chunk id: content and header are those
\* of the chunk (chunk 1 has no header), score the score of the search
SearchChunk(id) ==
  [chunk_id |-> id, content |-> id,
   header |-> IF id = 1 THEN "None" ELSE "header",
   score |-> IF id = 1 THEN ROne ELSE RZero, search_type |-> "hybrid"]

\* lists of up to MaxRerank chunks, no chunk twice
ChunkLists ==
  UNION {{[i \in 1..n |-> SearchChunk(f[i])] :
            f \in {g \in [1..n -> 1..MaxRerank] : \A i, j \in 1..n : i # j => g[i] # g[j]}} :
         n \in 0..MaxRerank}

\* CrossEncoder.predict(pairs): one score per (query, content) pair, given by
\* what the model makes of the content
predict(model, chunks) == [i \in 1..Len(chunks) |-> model[chunks[i].content]]

NoRerankCall == [pc |-> "idle", chunks |-> <<>>, model |-> <<>>, top_k |-> 0, out |-> <<>>]

\* a call of Reranker.rerank(query, chunks, top_k)
RerankCall ==
  /\ rerank_call.pc = "idle"
  /\ \E chunks \in ChunkLists, top_k \in 0..(MaxRerank + 1),
        model \in [1..MaxRerank -> ModelScores] :
       rerank_call' = [pc |-> "returned", chunks |-> chunks, model |-> model,
                       top_k |-> top_k,
                       out |-> rerank(chunks, predict(model, chunks), top_k)]
  /\ UNCHANGED <<core_vars, reranker, perm, context, mcp, chat, ws>>

RerankDone ==
  /\ rerank_call.pc = "returned"
  /\ rerank_call' = NoRerankCall
  /\ UNCHANGED <<core_vars, reranker, perm, context, mcp, chat, ws>>

\* ------------------------------------------------- tools.get_reranker
\* _reranker_instance: 0 for None, else the number of the Reranker() call
\* that made the object; made counts the Reranker objects constructed
Tasks == 1..MaxTasks
IdleTask == [pc |-> "idle", use_reranker |-> FALSE, got |-> 0]
NoReranker == [instance |-> 0, made |-> 0, tasks |-> [t \in Tasks |-> IdleTask]]

\* a get_reranker that does not look at _reranker_instance
get_reranker_fresh(state) ==
  [state EXCEPT !.instance = state.made + 1, !.made = @ + 1]

\* get_reranker: "if _reranker_instance is None: _reranker_instance =
\* Reranker()"; the state after the call, whose instance is what it returns
get_reranker(state) ==
  IF state.instance = 0
  THEN [state EXCEPT !.instance = state.made + 1, !.made = @ + 1]
  ELSE state

\* call_tool starts tools.hybrid_search, which awaits do_hybrid_search
ToolTaskStart(t) ==
  /\ reranker.tasks[t].pc = "idle"
  /\ \E use_reranker \in BOOLEAN :
       reranker' = [reranker EXCEPT !.tasks[t] =
                      [pc |-> "searching", use_reranker |-> use_reranker, got |-> 0]]
  /\ UNCHANGED <<core_vars, rerank_call, perm, context, mcp, chat, ws>>

\* do_hybrid_search is over: with chunks and use_reranker the call takes the
\* reranker and reranks, all without an await; Reranker() may raise, and
\* then nothing is assigned
ToolTaskRerank(t) ==
  /\ reranker.tasks[t].pc = "searching"
  /\ \E chunks \in BOOLEAN, raised \in BOOLEAN :
       IF reranker.tasks[t].use_reranker /\ chunks
       THEN IF raised /\ reranker.instance = 0
            THEN reranker' = [reranker EXCEPT !.tasks[t].pc = "failed"]
            ELSE LET after == get_reranker(reranker) IN
                 reranker' = [after EXCEPT !.tasks[t].pc = "returned",
                                           !.tasks[t].got = after.instance]
       ELSE reranker' = [reranker EXCEPT !.tasks[t].pc = "returned"]
  /\ UNCHANGED <<core_vars, rerank_call, perm, context, mcp, chat, ws>>

\* call_tool takes the result
ToolTaskDone(t) ==
  /\ reranker.tasks[t].pc \in {"returned", "failed"}
  /\ reranker' = [reranker EXCEPT !.tasks[t] = IdleTask]
  /\ UNCHANGED <<core_vars, rerank_call, perm, context, mcp, chat, ws>>

\* ----------------------------- search.hybrid_search on permuted queries
\* all_results after the sub-queries whose scored results are lists, in order
RECURSIVE UpsertLists(_, _)
UpsertLists(all, lists) ==
  IF Len(lists) = 0 THEN all
  ELSE UpsertLists(UpsertAll(all, lists[1]), Tail(lists))

\* hybrid_search as a function of what the store returns for each vector
\* query and each FTS query, in the order of the query lists
hybrid_search(vector_results, fts_results) ==
  LET vector_scored == [i \in 1..Len(vector_results) |-> VectorScored(vector_results[i])]
      fts_scored == [i \in 1..Len(fts_results) |-> FtsScored(fts_results[i])]
  IN SortedChunks(UpsertLists(UpsertLists(<<>>, vector_scored), fts_scored))

\* the lists whose entry i is one of the answers sets[i] to query i
Answers(sets) ==
  {s \in [1..Len(sets) -> UNION {sets[i] : i \in 1..Len(sets)}] :
     \A i \in 1..Len(sets) : s[i] \in sets[i]}

\* a list of two in the other order
Swapped(s) == IF Len(s) = 2 THEN <<s[2], s[1]>> ELSE s

NoPerm == [pc |-> "idle", vector_results |-> <<>>, fts_results |-> <<>>,
           out |-> <<>>, permuted |-> <<>>]

\* hybrid_search twice on one store, the second time with the vector
\* queries and the FTS queries in the other order; the store answers a
\* query the same way both times
PermCall ==
  /\ perm.pc = "idle"
  /\ \E domain \in {"products", "compatibility"}, top_k_per_query \in 1..MaxTopK,
        nv \in 0..MaxQueries, nf \in 0..MaxQueries :
       /\ nv + nf <= MaxQueries
       /\ \E dss \in [1..nv -> DistFns], rks \in [1..nf -> RankFns] :
          \E vector_results \in
               Answers([i \in 1..nv |->
                  search_vector(dss[i], get_by_slug(domain), top_k_per_query, RZero)]),
             fts_results \in
               Answers([i \in 1..nf |->
                  search_fts(rks[i], get_by_slug(domain), top_k_per_query)]) :
            /\ perm' = [pc |-> "returned",
                        vector_results |-> vector_results, fts_results |-> fts_results,
                        out |-> hybrid_search(vector_results, fts_results),
                        permuted |-> hybrid_search(Swapped(vector_results),
                                                   Swapped(fts_results))]
  /\ UNCHANGED <<core_vars, rerank_call, reranker, context, mcp, chat, ws>>

PermDone ==
  /\ perm.pc = "returned"
  /\ perm' = NoPerm
  /\ UNCHANGED <<core_vars, rerank_call, reranker, context, mcp, chat, ws>>

\* ------------------------------------------------- RAGService.get_context
\* RAGService.get_context: the string built from the results of search
get_context(results) ==
  IF Len(results) = 0 THEN <<>>
  ELSE LET context_parts ==
             [i \in 1..Len(results) |->
                <<"## ", HeaderOr(results[i].header, FallbackLabel),
                  KnowledgeBaseSuffix, BlankLine, results[i].content>>]
       IN join(BlankLine, context_parts)

\* result lists of up to MaxContext results; a result is given by its header
\* and its content
ResultLists ==
  UNION {[1..n -> [header : Headers, content : 1..2]] : n \in 0..MaxContext}

NoContext == [pc |-> "idle", results |-> <<>>, tool |-> <<>>, service |-> <<>>]

\* one result list rendered by the tool and by get_context
ContextCall ==
  /\ context.pc = "idle"
  /\ \E results \in ResultLists :
       context' = [pc |-> "returned", results |-> results,
                   tool |-> formatted_context(results),
                   service |-> get_context(results)]
  /\ UNCHANGED <<core_vars, rerank_call, reranker, perm, mcp, chat, ws>>

ContextDone ==
  /\ context.pc = "returned"
  /\ context' = NoContext
  /\ UNCHANGED <<core_vars, rerank_call, reranker, perm, mcp, chat, ws>>

\* ------------------------------------------------------ MCPClientManager
\* the transports a server configuration can name; "http" with and without
\* the url it needs
Transports == {"stdio", "http", "http_no_url", "unknown"}

\* the tools a server can announce, and the server names get_tools filters by
ToolLists ==
  {<<>>, <<"rag_hybrid_search">>, <<"web_search">>,
   <<"rag_hybrid_search", "web_search">>}

ServerNames == {"None", "rag", "web"}

ToolNames == {"rag_hybrid_search", "web_search", "missing"}

\* server_name in t.name
NameContains(tool_name, server_name) ==
  \/ server_name = "rag" /\ tool_name = "rag_hybrid_search"
  \/ server_name = "web" /\ tool_name = "web_search"

\* no call made on the manager yet
NoCall == [op |-> "none", arg |-> "None", outcome |-> "none", value |-> <<>>,
           was_initialized |-> FALSE, was_tools |-> <<>>, was_client |-> "None"]

\* MCPClientManager.__init__; pc is where the owner of the manager stands,
\* awaiting is its initialize() call while that waits for the servers, up
\* records whether the latest lifecycle call that returned was initialize
MCPClientManager(servers_config) ==
  [servers_config |-> servers_config, client |-> "None", tools |-> <<>>,
   initialized |-> FALSE, pc |-> "idle", awaiting |-> NoCall, up |-> FALSE,
   last |-> NoCall]

NewManager == MCPClientManager("stdio")

\* the call that is recorded as the latest one
Called(m, op, arg, outcome, value) ==
  [op |-> op, arg |-> arg, outcome |-> outcome, value |-> value,
   was_initialized |-> m.initialized, was_tools |-> m.tools,
   was_client |-> m.client]

\* _build_client_config raises MCPClientError for an http server without url
\* and for an unknown transport
ConfigFails(servers_config) == servers_config \in {"http_no_url", "unknown"}

\* MCPClientManager.initialize up to `await self._client.get_tools()`
initialize_enter(m) ==
  IF m.initialized
  THEN [m EXCEPT !.last = Called(m, "initialize", "None", "returned", <<>>),
                 !.up = TRUE]
  ELSE IF ConfigFails(m.servers_config)
  THEN [m EXCEPT !.last = Called(m, "initialize", "None", "MCPServerUnavailableError", <<>>)]
  ELSE [m EXCEPT !.client = "client", !.pc = "get_tools",
                 !.awaiting = Called(m, "initialize", "None", "awaiting", <<>>),
                 !.last = Called(m, "initialize", "None", "awaiting", <<>>)]

\* MCPClientManager.initialize after the await: the server announced its
\* tools, or the connection raised
initialize_resume(m, ok, tools) ==
  IF ok
  THEN [m EXCEPT !.tools = tools, !.initialized = TRUE, !.pc = "idle",
                 !.up = TRUE, !.awaiting = NoCall,
                 !.last = [m.awaiting EXCEPT !.outcome = "returned"]]
  ELSE [m EXCEPT !.pc = "idle", !.awaiting = NoCall,
                 !.last = [m.awaiting EXCEPT
                             !.outcome = "MCPServerUnavailableError"]]

\* a close that keeps the manager marked as initialized
close_keeping(m) ==
  IF ~m.initialized
  THEN [m EXCEPT !.last = Called(m, "close", "None", "returned", <<>>), !.up = FALSE]
  ELSE [m EXCEPT !.client = "None", !.tools = <<>>,
                 !.up = FALSE,
                 !.last = Called(m, "close", "None", "returned", <<>>)]

\* MCPClientManager.close
close(m) ==
  IF ~m.initialized
  THEN [m EXCEPT !.last = Called(m, "close", "None", "returned", <<>>), !.up = FALSE]
  ELSE [m EXCEPT !.client = "None", !.tools = <<>>, !.initialized = FALSE,
                 !.up = FALSE,
                 !.last = Called(m, "close", "None", "returned", <<>>)]

\* [t for t in self._tools if server_name in t.name]
FilterTools(tools, server_name) ==
  SelectSeq(tools, LAMBDA t : NameContains(t, server_name))

\* MCPClientManager.get_tools
get_tools(m, server_name) ==
  IF ~m.initialized
  THEN [m EXCEPT !.last = Called(m, "get_tools", server_name, "MCPClientError", <<>>)]
  ELSE [m EXCEPT !.last = Called(m, "get_tools", server_name, "returned",
                                 IF server_name # "None"
                                 THEN FilterTools(m.tools, server_name)
                                 ELSE m.tools)]

\* MCPClientManager.get_tool_by_name; the value is the tool found in a list
\* of one, or the empty list for None
get_tool_by_name(m, tool_name) ==
  IF ~m.initialized
  THEN [m EXCEPT !.last = Called(m, "get_tool_by_name", tool_name, "MCPClientError", <<>>)]
  ELSE [m EXCEPT !.last = Called(m, "get_tool_by_name", tool_name, "returned",
                                 SelectSeq(m.tools, LAMBDA t : t = tool_name))]

\* a manager is constructed for a configuration
MCPNew ==
  /\ mcp.pc = "idle"
  /\ \E cfg \in Transports : mcp' = MCPClientManager(cfg)
  /\ UNCHANGED <<core_vars, rerank_call, reranker, perm, context, chat, ws>>

\* the owner of the manager calls initialize()
MCPInitialize ==
  /\ mcp.pc = "idle"
  /\ mcp' = initialize_enter(mcp)
  /\ UNCHANGED <<core_vars, rerank_call, reranker, perm, context, chat, ws>>

\* the servers answer the pending initialize()
MCPInitializeResume ==
  /\ mcp.pc = "get_tools"
  /\ \E ok \in BOOLEAN, tools \in ToolLists :
       mcp' = initialize_resume(mcp, ok, tools)
  /\ UNCHANGED <<core_vars, rerank_call, reranker, perm, context, chat, ws>>

\* the owner of the manager calls close()
MCPClose ==
  /\ mcp.pc = "idle"
  /\ mcp' = close(mcp)
  /\ UNCHANGED <<core_vars, rerank_call, reranker, perm, context, chat, ws>>

\* any task asks for the tools, also while initialize() awaits the servers
MCPGetTools ==
  /\ \E server_name \in ServerNames : mcp' = get_tools(mcp, server_name)
  /\ UNCHANGED <<core_vars, rerank_call, reranker, perm, context, chat, ws>>

MCPGetToolByName ==
  /\ \E tool_name \in ToolNames : mcp' = get_tool_by_name(mcp, tool_name)
  /\ UNCHANGED <<core_vars, rerank_call, reranker, perm, context, chat, ws>>

NextMCP ==
  \/ MCPNew
  \/ MCPInitialize
  \/ MCPInitializeResume
  \/ MCPClose
  \/ MCPGetTools
  \/ MCPGetToolByName

\* ---------------------------------------------------------- ChatService
\* the values of the stages process_message names
STAGE_THINKING == "thinking"

STAGE_CALLING_TOOL == "calling_tool"

STAGE_SYNTHESIZING == "synthesizing"

\* the events of the stream, as records of one shape
Event(type, stage, status, text, code) ==
  [type |-> type, stage |-> stage, status |-> status, text |-> text,
   code |-> code]

StageEvent(stage, status) == Event("stage", stage, status, "", "")

TokenEvent(token) == Event("token", "", "", token, "")

CompleteEvent(response) == Event("complete", "", "", response, "")

ErrorEvent(code) == Event("error", "", "", "", code)

\* the content of a chunk or of a final message: absent, a string, or a
\* list of blocks
NoData == [kind |-> "none", text |-> "", blocks |-> <<>>]

StrData(text) == [kind |-> "str", text |-> text, blocks |-> <<>>]

ListData(blocks) == [kind |-> "list", text |-> "", blocks |-> blocks]

Block(type, text) == [type |-> type, text |-> text]

ChunkData ==
  {NoData, StrData(""), StrData("to"),
   ListData(<<Block("text", "to"), Block("image", "img"), Block("text", "")>>)}

\* the output of the graph: its last message as the characters of its text
FinalData == {NoData, ListData(<<Block("char", "o"), Block("char", "k")>>)}

GraphEvent(event, name, data) == [event |-> event, name |-> name, data |-> data]

\* what graph.astream_events can deliver
GraphEvents ==
  {GraphEvent("on_tool_start", n, NoData) : n \in {"products_agent", "search"}}
    \cup {GraphEvent("on_tool_end", "products_agent", NoData)}
    \cup {GraphEvent("on_chat_model_stream", "ChatOpenAI", d) : d \in ChunkData}
    \cup {GraphEvent("on_chain_end", "LangGraph", d) : d \in FinalData}
    \cup {GraphEvent("on_chain_end", "main_agent", NoData)}

\* no call of process_message yet
NoChat == [pc |-> "idle", events |-> <<>>, current_stage |-> "None",
           is_calling_tool |-> FALSE, full_response |-> <<>>, steps |-> 0]

\* a change of stage that does not close the stage that was current
switch_stage_open(c, stage) ==
  [c EXCEPT !.current_stage = stage,
            !.events = c.events \o <<StageEvent(stage, "active")>>]

\* the two yields around `current_stage = ...`: the current stage is
\* completed, the new one is announced as active
switch_stage(c, stage) ==
  [c EXCEPT !.current_stage = stage,
            !.events = c.events
              \o (IF c.current_stage # "None"
                  THEN <<StageEvent(c.current_stage, "completed")>>
                  ELSE <<>>)
              \o <<StageEvent(stage, "active")>>]

\* the texts that become tokens: a non-empty string, or the non-empty texts
\* of the text blocks of a list
chunk_tokens(data) ==
  IF data.kind = "str" /\ data.text # "" THEN <<data.text>>
  ELSE IF data.kind = "list"
  THEN LET texts == SelectSeq(data.blocks,
                              LAMBDA b : b.type = "text" /\ b.text # "")
       IN [i \in 1..Len(texts) |-> texts[i].text]
  ELSE <<>>

\* full_response += text; yield TokenEvent(token=text), for each text
emit_tokens(c, tokens) ==
  [c EXCEPT !.full_response = c.full_response \o tokens,
            !.events = c.events
              \o [i \in 1..Len(tokens) |-> TokenEvent(tokens[i])]]

\* the branch of on_tool_start
on_tool_start(c) ==
  IF ~c.is_calling_tool
  THEN [switch_stage(c, STAGE_CALLING_TOOL) EXCEPT !.is_calling_tool = TRUE]
  ELSE c

\* the branch of on_chat_model_stream
on_chat_model_stream(c, data) ==
  emit_tokens(IF c.current_stage # STAGE_SYNTHESIZING
              THEN switch_stage(c, STAGE_SYNTHESIZING)
              ELSE c,
              chunk_tokens(data))

\* the branch of on_chain_end of the graph: the last message is streamed
\* character by character when nothing was streamed before
on_chain_end(c, data) ==
  IF data.kind = "list" /\ Len(data.blocks) > 0 /\ c.full_response = <<>>
  THEN emit_tokens(c, [i \in 1..Len(data.blocks) |-> data.blocks[i].text])
  ELSE c

\* the body of `async for event in self.graph.astream_events(...)`
handle_event(c, e) ==
  IF e.event = "on_tool_start" THEN on_tool_start(c)
  ELSE IF e.event = "on_tool_end" THEN c
  ELSE IF e.event = "on_chat_model_stream" THEN on_chat_model_stream(c, e.data)
  ELSE IF e.event = "on_chain_end" /\ e.name = "LangGraph"
  THEN on_chain_end(c, e.data)
  ELSE c

\* process_message is called: the first yield, then the locals
ChatStart ==
  /\ chat.pc \in {"idle", "complete", "error"}
  /\ chat' = [NoChat EXCEPT !.pc = "streaming",
                            !.events = <<StageEvent(STAGE_THINKING, "active")>>,
                            !.current_stage = STAGE_THINKING]
  /\ UNCHANGED <<core_vars, rerank_call, reranker, perm, context, mcp, ws>>

\* the graph delivers an event
ChatGraphEvent ==
  /\ chat.pc = "streaming"
  /\ chat.steps < MaxGraphEvents
  /\ \E e \in GraphEvents :
       chat' = [handle_event(chat, e) EXCEPT !.steps = chat.steps + 1]
  /\ UNCHANGED <<core_vars, rerank_call, reranker, perm, context, mcp, ws>>

\* the graph, or the handling of one of its events, raises
ChatGraphRaises ==
  /\ chat.pc = "streaming"
  /\ chat' = [chat EXCEPT !.pc = "error",
                          !.events = chat.events \o <<ErrorEvent("GRAPH_ERROR")>>]
  /\ UNCHANGED <<core_vars, rerank_call, reranker, perm, context, mcp, ws>>

\* the events of the graph are exhausted: the current stage is completed and
\* the response is sent
ChatGraphEnds ==
  /\ chat.pc = "streaming"
  /\ chat' = [chat EXCEPT
       !.pc = "complete",
       !.events = chat.events
         \o (IF chat.current_stage # "None"
             THEN <<StageEvent(chat.current_stage, "completed")>>
             ELSE <<>>)
         \o <<CompleteEvent(chat.full_response)>>]
  /\ UNCHANGED <<core_vars, rerank_call, reranker, perm, context, mcp, ws>>

NextChat ==
  \/ ChatStart
  \/ ChatGraphEvent
  \/ ChatGraphRaises
  \/ ChatGraphEnds

\* ------------------------------------- ConnectionManager, websocket_chat
Sessions == 1..MaxSessions

\* thread_id values of the path: two UUIDs and a text that is no UUID
PathThreadIds == {"uuid-a", "uuid-b", "not-a-uuid"}

\* str(uuid.uuid4()) of the handler of session s: unlike any other id
FreshThreadId(s) == <<"uuid-new-1", "uuid-new-2", "uuid-new-3">>[s]

ThreadIds == PathThreadIds \cup {FreshThreadId(s) : s \in 1..3}

\* websocket_chat: the thread_id the handler goes on with
ValidThreadId(thread_id, s) ==
  IF thread_id = "not-a-uuid" THEN FreshThreadId(s) ELSE thread_id

\* no WebSocket under a thread_id
NoSocket == 0

IdleHandler == [pc |-> "idle", thread_id |-> "", exit |-> "", reply |-> ""]

\* ConnectionManager.__init__ and no handler running: active is
\* _active_connections, the WebSocket of session s being s
NoSockets ==
  [active |-> [t \in ThreadIds |-> NoSocket],
   handlers |-> [s \in Sessions |-> IdleHandler]]

\* ConnectionManager.connect after websocket.accept()
connect(active, thread_id, websocket) ==
  [active EXCEPT ![thread_id] = websocket]

\* ConnectionManager.disconnect
disconnect(active, thread_id) ==
  IF active[thread_id] # NoSocket
  THEN [active EXCEPT ![thread_id] = NoSocket]
  ELSE active

\* ConnectionManager.is_connected
is_connected(active, thread_id) == active[thread_id] # NoSocket

\* the messages a client sends, by what the handler does with them
ClientMessages == {"too_large", "ping", "invalid", "message"}

\* what the handler sends back
Reply(message) ==
  CASE message = "too_large" -> "MESSAGE_TOO_LARGE"
    [] message = "ping" -> "pong"
    [] message = "invalid" -> "INVALID_MESSAGE"
    [] OTHER -> "complete"

\* the ways out of the receive loop
ExitPaths == {"timeout", "client_disconnect", "internal_error"}

\* a client opens /ws/chat/{thread_id}: the handler starts and awaits
\* websocket.accept() in connect
WsOpen(s) ==
  /\ ws.handlers[s].pc = "idle"
  /\ \E thread_id \in PathThreadIds :
       ws' = [ws EXCEPT !.handlers[s] =
                [IdleHandler EXCEPT !.pc = "accepting",
                                    !.thread_id = ValidThreadId(thread_id, s)]]
  /\ UNCHANGED <<core_vars, rerank_call, reranker, perm, context, mcp, chat>>

\* accept() returns: the WebSocket is registered and the loop starts
WsAccept(s) ==
  /\ ws.handlers[s].pc = "accepting"
  /\ ws' = [ws EXCEPT !.active = connect(@, ws.handlers[s].thread_id, s),
                      !.handlers[s].pc = "open"]
  /\ UNCHANGED <<core_vars, rerank_call, reranker, perm, context, mcp, chat>>

\* accept() raises: connect is outside the try, the handler ends
WsAcceptFails(s) ==
  /\ ws.handlers[s].pc = "accepting"
  /\ ws' = [ws EXCEPT !.handlers[s] =
              [@ EXCEPT !.pc = "closed", !.exit = "accept_failed"]]
  /\ UNCHANGED <<core_vars, rerank_call, reranker, perm, context, mcp, chat>>

\* one turn of the loop: a message is received and answered
WsMessage(s) ==
  /\ ws.handlers[s].pc = "open"
  /\ \E message \in ClientMessages :
       ws' = [ws EXCEPT !.handlers[s].reply = Reply(message)]
  /\ UNCHANGED <<core_vars, rerank_call, reranker, perm, context, mcp, chat>>

\* the loop is left by a timeout (break), by WebSocketDisconnect or by
\* another exception: "finally: connection_manager.disconnect(thread_id)"
WsExit(s) ==
  /\ ws.handlers[s].pc = "open"
  /\ \E exit \in ExitPaths :
       ws' = [ws EXCEPT
                !.active = disconnect(@, ws.handlers[s].thread_id),
                !.handlers[s] = [@ EXCEPT !.pc = "closed", !.exit = exit]]
  /\ UNCHANGED <<core_vars, rerank_call, reranker, perm, context, mcp, chat>>

\* the connection of a handler that ended is gone; the session can be used
\* for a new one
WsGone(s) ==
  /\ ws.handlers[s].pc = "closed"
  /\ ws' = [ws EXCEPT !.handlers[s] = IdleHandler]
  /\ UNCHANGED <<core_vars, rerank_call, reranker, perm, context, mcp, chat>>

NextWs ==
  \E s \in Sessions :
    \/ WsOpen(s)
    \/ WsAccept(s)
    \/ WsAcceptFails(s)
    \/ WsMessage(s)
    \/ WsExit(s)
    \/ WsGone(s)


\* chunk 1 belongs to "compatibility", the others to "products"; ingestion
\* writes every chunk with its embedding
InitChunks ==
  {[id |-> c, domain_id |-> IF c = 1 THEN 2 ELSE 1, has_embedding |-> TRUE,
    chunk_index |-> IF c = 1 THEN 0 ELSE c - 2, batch |-> 0, content |-> c,
    embedding_of |-> c] :
     c \in ChunkIds}

Init ==
  /\ db_chunks = InitChunks
  /\ dense_weight = RZero
  /\ sparse_weight = RZero
  /\ embedding_service = "none"
  /\ r_pc = "idle"
  /\ r_in = NoArgs
  /\ r_fts = <<>>
  /\ r_vec = <<>>
  /\ r_fts_scores = <<>>
  /\ r_merged = {}
  /\ r_out = <<>>
  /\ r_calls = {}
  /\ r_err = ""
  /\ r_emb = NoEmb
  /\ a_pc = "idle"
  /\ a_in = NoModeAArgs
  /\ a_domain_id = NoDomain
  /\ a_vleft = 0
  /\ a_fleft = 0
  /\ a_all = <<>>
  /\ a_out = <<>>
  /\ a_hits = {}
  /\ a_last = <<>>
  /\ a_calls = {}
  /\ a_err = ""
  /\ a_emb = NoEmb
  /\ t_pc = "idle"
  /\ t_in = NoToolArgs
  /\ t_chunks = <<>>
  /\ ingest = [r \in Runs |-> IdleRun]
  /\ next_batch = 1
  /\ c_pc = "idle"
  /\ c_in = <<>>
  /\ c_out = <<>>
  /\ e_pc = "idle"
  /\ e_in = NoEmbedArgs
  /\ e_out = NoEmbedResult
  /\ t_out = NoToolResult
  /\ rerank_call = NoRerankCall
  /\ reranker = NoReranker
  /\ perm = NoPerm
  /\ context = NoContext
  /\ mcp = NewManager
  /\ chat = NoChat
  /\ ws = NoSockets

\* one caller, one operation at a time: the operations share nothing but the
\* store, which none of them writes
Next ==
  \/ ToolCall
  \/ ToolRerank
  \/ ToolFinish
  \/ ToolFailed
  \/ ToolRerankFailed
  \/ ToolFormatFailed
  \/ ToolDone
  \/ ModeACall
  \/ ModeAVectorQuery
  \/ ModeAFtsQuery
  \/ ModeAQueryFailed
  \/ ModeAReturn
  \/ ModeADone
  \/ SearchUnknownDomain
  \/ SearchFailed
  \/ SearchFts
  \/ SearchVector
  \/ SearchHybrid
  \/ SearchDone

Spec == Init /\ [][Next]_vars

\* ingest_agent runs, each a process of its own (scripts/ingest.py), in any
\* interleaving of their steps
NextIngest ==
  \E r \in Runs :
    \/ IngestStart(r)
    \/ IngestChunk(r)
    \/ IngestEmbed(r)
    \/ IngestDeleteBegin(r)
    \/ IngestDeleteEnd(r)
    \/ IngestInsert(r)
    \/ IngestCommit(r)
    \/ IngestDone(r)

SpecIngest == Init /\ [][NextIngest]_vars

\* a run that starts while no other run is under way
IngestStartAlone(r) ==
  /\ \A o \in Runs \ {r} : ingest[o].pc = "idle"
  /\ IngestStart(r)

\* ingest_agent runs one after the other (ingest_all, or one process)
NextIngestSeq ==
  \E r \in Runs :
    \/ IngestStartAlone(r)
    \/ IngestChunk(r)
    \/ IngestEmbed(r)
    \/ IngestDeleteBegin(r)
    \/ IngestDeleteEnd(r)
    \/ IngestInsert(r)
    \/ IngestCommit(r)
    \/ IngestDone(r)

SpecIngestSeq == Init /\ [][NextIngestSeq]_vars

NextChunker == ChunkCall \/ ChunkDone

SpecChunker == Init /\ [][NextChunker]_vars

NextEmbed == EmbedCall \/ EmbedDone

SpecEmbed == Init /\ [][NextEmbed]_vars

NextRerank == RerankCall \/ RerankDone

SpecRerank == Init /\ [][NextRerank]_vars

NextContext == ContextCall \/ ContextDone

SpecContext == Init /\ [][NextContext]_vars

SpecMCP == Init /\ [][NextMCP]_vars

SpecChat == Init /\ [][NextChat]_vars

SpecWs == Init /\ [][NextWs]_vars

NextPerm == PermCall \/ PermDone

SpecPerm == Init /\ [][NextPerm]_vars

\* the tool calls of one server process, as tasks of one event loop
NextReranker ==
  \E t \in Tasks :
    \/ ToolTaskStart(t)
    \/ ToolTaskRerank(t)
    \/ ToolTaskDone(t)

SpecReranker == Init /\ [][NextReranker]_vars

\* every operation in one system: the searches on the store as it was set
\* up, before the first ingestion run, and the ingestion runs one after the
\* other while no search is under way
NoIngestYet == next_batch = 1 /\ \A r \in Runs : ingest[r].pc = "idle"
NoSearch == r_pc = "idle" /\ a_pc = "idle" /\ t_pc = "idle"

SearchUnknownDomainFirst == NoIngestYet /\ SearchUnknownDomain
SearchFailedFirst == NoIngestYet /\ SearchFailed
SearchFtsFirst == NoIngestYet /\ SearchFts
SearchVectorFirst == NoIngestYet /\ SearchVector
SearchHybridFirst == NoIngestYet /\ SearchHybrid
ModeACallFirst == NoIngestYet /\ ModeACall
ToolCallFirst == NoIngestYet /\ ToolCall
IngestStartNoSearch(r) == NoSearch /\ IngestStartAlone(r)

NextAll ==
  \/ ToolCallFirst
  \/ ToolRerank
  \/ ToolFinish
  \/ ToolFailed
  \/ ToolRerankFailed
  \/ ToolFormatFailed
  \/ ToolDone
  \/ ModeACallFirst
  \/ ModeAVectorQuery
  \/ ModeAFtsQuery
  \/ ModeAQueryFailed
  \/ ModeAReturn
  \/ ModeADone
  \/ \E r \in Runs :
       \/ IngestStartNoSearch(r)
       \/ IngestChunk(r)
       \/ IngestEmbed(r)
       \/ IngestDeleteBegin(r)
       \/ IngestDeleteEnd(r)
       \/ IngestInsert(r)
       \/ IngestCommit(r)
       \/ IngestDone(r)
  \/ SearchUnknownDomainFirst
  \/ SearchFailedFirst
  \/ SearchFtsFirst
  \/ SearchVectorFirst
  \/ SearchHybridFirst
  \/ SearchDone

SpecAll == Init /\ [][NextAll]_vars


\* ====================================================== properties
\* an FTS result set as the properties see it: the ranks, and the
\* normalized score given to each entry
Observed(ranks, scores) == [ranks |-> ranks, scores |-> scores]

\* the FTS result sets of the operation that has just run
FtsObserved ==
  (IF r_pc = "returned" /\ r_in.search_type \in {"fts", "hybrid"}
   THEN {Observed([i \in 1..Len(r_fts) |-> r_fts[i].rank], r_fts_scores)}
   ELSE {})
  \cup
  (IF a_pc = "queries" /\ Len(a_last) > 0
   THEN {Observed([i \in 1..Len(a_last) |-> a_last[i].rank],
                  [i \in 1..Len(a_last) |-> a_last[i].score])}
   ELSE {})

IsMaxRank(o, i) == \A j \in 1..Len(o.ranks) : o.ranks[j] <= o.ranks[i]
IsMinRank(o, i) == \A j \in 1..Len(o.ranks) : o.ranks[i] <= o.ranks[j]
ZeroRange(o) == \A i, j \in 1..Len(o.ranks) : o.ranks[i] = o.ranks[j]

\* score * (max - min) = rank - min, max-ranked 1.0, min-ranked 0.0, in [0,1]
MinMaxNormalized(o) ==
  \A i \in 1..Len(o.ranks) :
    /\ InUnit(o.scores[i])
    /\ IsMaxRank(o, i) => o.scores[i] = ROne
    /\ IsMinRank(o, i) => o.scores[i] = RZero
    /\ \A hi, lo \in 1..Len(o.ranks) :
         IsMaxRank(o, hi) /\ IsMinRank(o, lo) =>
           o.scores[i][1] * (o.ranks[hi] - o.ranks[lo])
             = (o.ranks[i] - o.ranks[lo]) * o.scores[i][2]

HitIds == {h.id : h \in a_hits}
HitScores(id) == {h.score : h \in {x \in a_hits : x.id = id}}
HitKinds(id) == {h.kind : h \in {x \in a_hits : x.id = id}}

\* C1: when Mode A returns, every chunk that some sub-query returned is in
\* the list exactly once, with the greatest of the scores the sub-queries
\* gave it.
C1_DedupKeepsMaxScore ==
  a_pc = "returned" =>
    \A id \in HitIds :
      /\ Cardinality({i \in 1..Len(a_out) : a_out[i].chunk_id = id}) = 1
      /\ \A i \in 1..Len(a_out) :
           a_out[i].chunk_id = id =>
             /\ a_out[i].score \in HitScores(id)
             /\ \A sc \in HitScores(id) : RLeq(sc, a_out[i].score)

\* a chunk came back from two sub-queries with different scores
C1_Witness ==
  /\ a_pc = "returned"
  /\ \E id \in HitIds : Cardinality(HitScores(id)) >= 2

\* the tag section 4.4 asks for
SignalTag(id) ==
  IF HitKinds(id) = {"vector", "fts"} THEN "hybrid"
  ELSE IF HitKinds(id) = {"vector"} THEN "dense" ELSE "sparse"

\* C2 as claimed: a chunk of the Mode A list is tagged hybrid exactly when it
\* came from both signal types, and with its one signal's tag otherwise.
C2_TagFollowsSignals ==
  a_pc = "returned" =>
    \A i \in 1..Len(a_out) : a_out[i].search_type = SignalTag(a_out[i].chunk_id)

\* C2 amended: every chunk Mode A returns, and every chunk the tool returns,
\* is tagged hybrid, whichever signals produced it.
C2_AlwaysTaggedHybrid ==
  /\ a_pc = "returned" =>
       \A i \in 1..Len(a_out) : a_out[i].search_type = "hybrid"
  /\ t_pc = "returned" =>
       \A i \in 1..Len(t_out.chunks) : t_out.chunks[i].search_type = "hybrid"

\* the list holds a chunk seen from both signals and a chunk seen from one
C2_Witness ==
  /\ a_pc = "returned"
  /\ \E i, j \in 1..Len(a_out) :
       /\ Cardinality(HitKinds(a_out[i].chunk_id)) = 2
       /\ Cardinality(HitKinds(a_out[j].chunk_id)) = 1

\* C3 as claimed: every FTS result set of two or more items is min-max
\* normalized, its top-ranked item at 1.0 and its bottom-ranked item at 0.0,
\* and a one-item set scores 1.0.
C3_MinMaxForTwoOrMore ==
  \A o \in FtsObserved :
    /\ Len(o.ranks) >= 2 => MinMaxNormalized(o)
    /\ Len(o.ranks) = 1 => o.scores[1] = ROne

\* C3 amended: the same for every result set of two or more items whose
\* ranks are not all equal.
C3_MinMaxForDistinctRanks ==
  \A o \in FtsObserved :
    /\ Len(o.ranks) >= 2 /\ ~ZeroRange(o) => MinMaxNormalized(o)
    /\ Len(o.ranks) = 1 => o.scores[1] = ROne

\* three results of one FTS query, one of them strictly between 0 and 1
C3_Witness ==
  \E o \in FtsObserved :
    /\ Len(o.ranks) >= 3
    /\ \E i \in 1..Len(o.ranks) : RLt(RZero, o.scores[i]) /\ RLt(o.scores[i], ROne)

\* C4: an FTS result set of two or more items with equal ranks gives every
\* item the score 1.0.
C4_ZeroRangeScoresOne ==
  \A o \in FtsObserved :
    Len(o.ranks) >= 2 /\ ZeroRange(o) =>
      \A i \in 1..Len(o.ranks) : o.scores[i] = ROne

HybridReturned == r_pc = "returned" /\ r_in.search_type = "hybrid"

FtsScoreOf(id) ==
  IF id \in Ids(r_fts) THEN r_fts_scores[IndexOf(r_fts, id)] ELSE RZero
VectorScoreOf(id) ==
  IF id \in Ids(r_vec) THEN RSub(ROne, r_vec[IndexOf(r_vec, id)].distance) ELSE RZero

\* C5: Mode B scores exactly the chunks of the union of the two result sets,
\* each with dense_weight * vector_score + sparse_weight * fts_score, a
\* missing signal counting 0.0; a returned result carries that score.
C5_WeightedFusion ==
  HybridReturned =>
    /\ {m.id : m \in r_merged} = Ids(r_fts) \cup Ids(r_vec)
    /\ \A m \in r_merged :
         m.score = RAdd(RMul(dense_weight, VectorScoreOf(m.id)),
                        RMul(sparse_weight, FtsScoreOf(m.id)))
    /\ \A m, n \in r_merged : m.id = n.id => m = n
    /\ \A i \in 1..Len(r_out) :
         [id |-> r_out[i].chunk_id, score |-> r_out[i].score] \in r_merged

\* a chunk in both result sets with unequal signal scores, and a chunk in one
C5_Witness ==
  /\ HybridReturned
  /\ \E id \in Ids(r_fts) \cap Ids(r_vec) :
       /\ FtsScoreOf(id) # VectorScoreOf(id)
       /\ \E i \in 1..Len(r_out) : r_out[i].chunk_id = id
  /\ Ids(r_fts) \ Ids(r_vec) # {}
  /\ Ids(r_vec) \ Ids(r_fts) # {}

\* C6: no result of RAGService.search and no chunk of the tool has a score
\* below the min_score of the call.
C6_NoResultBelowMinScore ==
  /\ r_pc = "returned" =>
       \A i \in 1..Len(r_out) : RLeq(r_in.min_score, r_out[i].score)
  /\ t_pc = "returned" =>
       \A i \in 1..Len(t_out.chunks) : RLeq(t_in.min_score, t_out.chunks[i].score)

\* C7: RAGService.search returns at most top_k results, the tool at most
\* final_top_k chunks.
C7_AtMostTopK ==
  /\ r_pc = "returned" => Len(r_out) <= r_in.top_k
  /\ t_pc = "returned" /\ ~t_out.failed => Len(t_out.chunks) <= t_in.final_top_k

\* the fusion scored more chunks than top_k and top_k of them came back
C7_Witness ==
  /\ HybridReturned
  /\ Cardinality(r_merged) > r_in.top_k
  /\ Len(r_out) = r_in.top_k

\* C8: every score handed to a caller lies in [0,1].
C8_ScoresInUnitInterval ==
  /\ r_pc = "returned" => \A i \in 1..Len(r_out) : InUnit(r_out[i].score)
  /\ a_pc = "returned" => \A i \in 1..Len(a_out) : InUnit(a_out[i].score)
  /\ t_pc = "returned" =>
       \A i \in 1..Len(t_out.chunks) : InUnit(t_out.chunks[i].score)

NonIncreasing(list) ==
  \A i, j \in 1..Len(list) : i < j => RLeq(list[j].score, list[i].score)

\* C9: the Mode A list and the RAGService.search list are ordered by score,
\* highest first.
C9_OrderedByScore ==
  /\ a_pc = "returned" => NonIncreasing(a_out)
  /\ r_pc = "returned" => NonIncreasing(r_out)

\* Mode A returns a list of different scores whose best chunk entered
\* all_results after another one
C9_Witness ==
  /\ a_pc = "returned"
  /\ Len(a_out) >= 2
  /\ a_out[1].chunk_id # a_all[1].id
  /\ RLt(a_out[Len(a_out)].score, a_out[1].score)

DomainOfChunk(id) == (CHOOSE c \in db_chunks : c.id = id).domain_id

\* C10: every store search carries the id the slug resolved to, no returned
\* chunk is of another domain, and an unknown slug raises before any search.
C10_DomainIsMandatoryFilter ==
  /\ r_pc = "returned" =>
       /\ \A c \in r_calls :
            c.domain_id = get_by_slug(r_in.agent_id) /\ c.domain_id # NoDomain
       /\ \A i \in 1..Len(r_out) :
            DomainOfChunk(r_out[i].chunk_id) = get_by_slug(r_in.agent_id)
  /\ a_pc \in {"queries", "returned"} =>
       /\ \A c \in a_calls :
            c.domain_id = get_by_slug(a_in.domain) /\ c.domain_id # NoDomain
       /\ \A i \in 1..Len(a_all) :
            DomainOfChunk(a_all[i].id) = get_by_slug(a_in.domain)
       /\ \A i \in 1..Len(a_out) :
            DomainOfChunk(a_out[i].chunk_id) = get_by_slug(a_in.domain)
  /\ (r_pc # "idle" /\ get_by_slug(r_in.agent_id) = NoDomain) =>
       r_pc = "raised" /\ r_calls = {}
  /\ (a_pc # "idle" /\ get_by_slug(a_in.domain) = NoDomain) =>
       a_pc = "raised" /\ a_calls = {}

\* a search of "products" returned chunks although the best match of every
\* query is a chunk of "compatibility"
C10_Witness ==
  /\ r_pc = "returned"
  /\ r_in.agent_id = "products"
  /\ r_in.search_type = "hybrid"
  /\ Len(r_out) >= 2
  /\ Cardinality(r_calls) = 2

\* C11: a step of search.hybrid_search or of RAGService.search that raised
\* ends the call by raising, with no list handed to the caller; a call that
\* returned had no failing step and, in Mode A, ran every sub-query.
C11_FailFast ==
  /\ a_err # "" => a_pc = "raised" /\ a_out = <<>>
  /\ a_pc = "returned" => a_err = "" /\ a_vleft = 0 /\ a_fleft = 0
  /\ r_err # "" => r_pc = "raised" /\ r_out = <<>>
  /\ r_pc = "returned" => r_err = ""

\* an FTS sub-query of Mode A raised after a vector sub-query had succeeded
C11_Witness ==
  /\ a_pc = "raised"
  /\ a_err = "fts"
  /\ \E c \in a_calls : c.kind = "vector"

\* the committed rows of a domain
DomainRowsOf(domain_id) == {c \in db_chunks : c.domain_id = domain_id}

\* the rows are one complete batch: a single document version, the indices
\* 0..n-1 once each, every row with the embedding of its own content
IsCompleteBatch(rows) ==
  /\ \A c, d \in rows : c.batch = d.batch
  /\ {c.chunk_index : c \in rows} = 0..(Cardinality(rows) - 1)
  /\ \A c, d \in rows : c.chunk_index = d.chunk_index => c = d
  /\ \A c \in rows : c.has_embedding /\ c.embedding_of = c.content

\* C12: when a run of ingest_agent has raised, at whatever step, the committed
\* chunks are the ones there were when it started; when it has returned, the
\* chunks of the domain are the new batch, one row per chunk, each with its
\* embedding, and the other domains are as they were; at no moment are the
\* committed chunks of the domain none or part of a batch.
C12_AllOrNothing ==
  /\ \A r \in Runs :
       LET run == ingest[r]
           now == DomainRowsOf(run.domain_id)
       IN
       /\ run.pc = "raised" => db_chunks = run.before
       /\ run.pc = "returned" =>
            /\ db_chunks \ now = {c \in run.before : c.domain_id # run.domain_id}
            /\ Cardinality(now) = Len(run.chunks)
            /\ \A c \in now : c.batch = run.batch /\ c.id \notin {b.id : b \in run.before}
            /\ \A i \in 1..Len(run.chunks) :
                 \E c \in now : /\ c.content = run.chunks[i].content
                                /\ c.chunk_index = run.chunks[i].chunk_index
            /\ IsCompleteBatch(now)
  /\ DomainRowsOf(get_by_slug("products")) # {}
  /\ IsCompleteBatch(DomainRowsOf(get_by_slug("products")))

\* a run raised at commit, after delete_by_domain and create_batch, in a
\* domain that had chunks
C12_Witness ==
  \E r \in Runs :
    /\ ingest[r].pc = "raised"
    /\ ingest[r].err = "commit"
    /\ {"delete_by_domain", "create_batch"} \subseteq ingest[r].calls
    /\ Len(ingest[r].chunks) = 2
    /\ \E c \in ingest[r].before : c.domain_id = ingest[r].domain_id

\* C13: a run whose document gives no chunk ends by raising the error of
\* that case, having called neither delete_by_domain nor create_batch and
\* with the committed chunks as they were; no run goes on to the embedding
\* or to the store with an empty chunk list, and the domain never has no
\* chunks.
C13_ZeroChunksAborts ==
  /\ \A r \in Runs :
       LET run == ingest[r] IN
       /\ run.pc \in {"embed", "save", "deleting", "insert", "commit", "returned"} =>
            Len(run.chunks) > 0
       /\ run.err = "no_chunks" =>
            /\ run.pc = "raised"
            /\ chunk_sections(run.sections, MIN_CHUNK_SIZE) = <<>>
            /\ run.calls = {}
            /\ db_chunks = run.before
       /\ (run.pc = "raised" /\ run.err \notin {"no_chunks"}) =>
            (run.sections # <<>> => Len(run.chunks) > 0)
  /\ DomainRowsOf(get_by_slug("products")) # {}

\* a document of two sections, both below the minimum size, made the run
\* raise
C13_Witness ==
  \E r \in Runs :
    /\ ingest[r].pc = "raised"
    /\ ingest[r].err = "no_chunks"
    /\ Len(ingest[r].sections) = 2
    /\ \A i \in 1..2 : ~IsEmptySection(ingest[r].sections[i])

\* the sections of the call whose content is in a returned chunk
KeptSections == {i \in 1..Len(c_in) : \E j \in 1..Len(c_out) : c_out[j].content = c_in[i].content}

\* non-empty sections shorter than the minimum
ShortSections ==
  {i \in 1..Len(c_in) : ~IsEmptySection(c_in[i]) /\ c_in[i].len < MIN_CHUNK_SIZE}

\* C14 as stated: a short non-empty section is dropped unless it is the only
\* section, and a document with a non-empty section is never left with zero
\* chunks
C14_Original ==
  c_pc = "returned" =>
    /\ \A i \in ShortSections : (i \in KeptSections) <=> (Len(c_in) = 1)
    /\ (\E i \in 1..Len(c_in) : ~IsEmptySection(c_in[i])) => c_out # <<>>

\* C14: chunk_sections drops a non-empty section shorter than min_chunk_size
\* unless it is the only section of the list, which is kept whatever its
\* size; a document of one non-empty section always gives one chunk, and a
\* list of two or more sections none of which reaches min_chunk_size gives
\* no chunk.
C14_SizeFilter ==
  c_pc = "returned" =>
    /\ \A i \in ShortSections : (i \in KeptSections) <=> (Len(c_in) = 1)
    /\ (Len(c_in) = 1 /\ ~IsEmptySection(c_in[1])) => Len(c_out) = 1
    /\ (Len(c_in) > 1 /\ \A i \in 1..Len(c_in) : c_in[i].len < MIN_CHUNK_SIZE) =>
         c_out = <<>>

\* a sole section below the minimum size was kept
C14_Witness ==
  /\ c_pc = "returned"
  /\ Len(c_in) = 1
  /\ ShortSections = {1}
  /\ Len(c_out) = 1
  /\ c_out[1].len < MIN_CHUNK_SIZE

\* C15: the chunks returned have chunk_index 0, 1, ..., n-1 in this order,
\* they are the sections that are neither empty nor too small, in the order
\* of their sections, and none has blank content.
C15_ContiguousIndices ==
  c_pc = "returned" =>
    /\ \A j \in 1..Len(c_out) :
         /\ c_out[j].chunk_index = j - 1
         /\ c_out[j].len > 0 /\ ~c_out[j].blank
         /\ \E i \in 1..Len(c_in) :
              /\ c_in[i].content = c_out[j].content
              /\ c_in[i].len = c_out[j].len
    /\ \A j, k \in 1..Len(c_out) : j < k => c_out[j].content < c_out[k].content
    /\ KeptSections =
         {i \in 1..Len(c_in) :
            /\ ~IsEmptySection(c_in[i])
            /\ ~(c_in[i].len < MIN_CHUNK_SIZE /\ Len(c_in) > 1)}
    /\ Len(c_out) = Cardinality(KeptSections)

\* of three sections the first was empty and the second too small: the third
\* is chunk 0
C15_Witness ==
  /\ c_pc = "returned"
  /\ Len(c_in) = 3
  /\ IsEmptySection(c_in[1])
  /\ 2 \in ShortSections
  /\ Len(c_out) = 1
  /\ c_out[1].content = c_in[3].content
  /\ c_out[1].chunk_index = 0

\* C16: no two committed chunks of a domain share their chunk_index,
\* whatever ingest_agent runs have taken place and however they overlapped.
C16_UniqueChunkIndex ==
  \A a, b \in db_chunks :
    (a.domain_id = b.domain_id /\ a.chunk_index = b.chunk_index) => a.id = b.id

\* the response of the attempt that ended the call
LastResponse == e_in.responses[e_out.calls]

\* a response of the right count whose vectors all have the right length
WellFormed(r, n) ==
  /\ r.kind = "ok"
  /\ Len(r.data) = n
  /\ \A i \in 1..Len(r.data) : r.data[i].dim = EMBEDDING_DIMENSION

\* C17: generate_batch raises EmbeddingError for more than MAX_BATCH_SIZE
\* texts without a call of the provider, returns [] for no text without a
\* call of the provider, and sends a batch of exactly MAX_BATCH_SIZE texts to
\* the provider in one call, returning all its vectors.
C17_BatchCap ==
  e_pc = "done" =>
    LET n == Len(e_in.texts) IN
    /\ n > MAX_BATCH_SIZE =>
         /\ e_out.status = "EmbeddingError"
         /\ e_out.error = "batch_size"
         /\ e_out.calls = 0
         /\ e_out.embeddings = <<>>
    /\ n = 0 => e_out = EmbedOk(<<>>, 0)
    /\ n \in 1..MAX_BATCH_SIZE =>
         /\ e_out.calls >= 1
         /\ e_out.error # "batch_size"
         /\ WellFormed(LastResponse, n) =>
              (e_out.status = "ok" /\ Len(e_out.embeddings) = n)

\* a batch of MAX_BATCH_SIZE + 1 texts was rejected
C17_Witness ==
  /\ e_pc = "done"
  /\ Len(e_in.texts) = MAX_BATCH_SIZE + 1
  /\ e_out.status = "EmbeddingError"
  /\ e_out.calls = 0

\* C18: a generate_batch that returns for n >= 1 texts returns n vectors,
\* vector i being the provider's embedding of text i and of length
\* EMBEDDING_DIMENSION; when the provider's answer has another count, or a
\* vector of another length, the call raises EmbeddingError and returns
\* nothing.
C18_CountAndDimension ==
  e_pc = "done" =>
    LET n == Len(e_in.texts) IN
    /\ (e_out.status = "ok" /\ n >= 1) =>
         /\ Len(e_out.embeddings) = n
         /\ \A i \in 1..n :
              /\ e_out.embeddings[i].text = e_in.texts[i]
              /\ e_out.embeddings[i] = LastResponse.data[i]
              /\ e_out.embeddings[i].dim = EMBEDDING_DIMENSION
    /\ (e_out.calls >= 1 /\ LastResponse.kind = "ok" /\ ~WellFormed(LastResponse, n)) =>
         /\ e_out.status = "EmbeddingError"
         /\ e_out.embeddings = <<>>
         /\ e_out.error \in {"count_mismatch", "dimension"}

\* an answer of the right count whose last vector is too short made the
\* call of a full batch raise
C18_Witness ==
  /\ e_pc = "done"
  /\ Len(e_in.texts) = MAX_BATCH_SIZE
  /\ e_out.calls >= 1
  /\ LastResponse.kind = "ok"
  /\ Len(LastResponse.data) = MAX_BATCH_SIZE
  /\ LastResponse.data[MAX_BATCH_SIZE].dim # EMBEDDING_DIMENSION
  /\ e_out.status = "EmbeddingError"

\* failures of a connection or by timeout, as the provider reports them
IsTransient(kind) ==
  kind \in {"TimeoutError", "ConnectionError", "APITimeoutError", "APIConnectionError"}

\* C19: a generate_batch call calls the provider at most max_retries times;
\* every attempt but the last failed with a connection or timeout error; a
\* call that ends on any other failure made exactly one call; a call whose
\* attempts all failed with a connection or timeout error raises
\* EmbeddingError after exactly max_retries calls.
C19_BoundedTransientRetries ==
  (e_pc = "done" /\ Len(e_in.texts) \in 1..MAX_BATCH_SIZE) =>
    /\ e_out.calls \in 1..e_in.max_retries
    /\ \A k \in 1..(e_out.calls - 1) : IsTransient(e_in.responses[k].kind)
    /\ (e_out.status = "EmbeddingError" /\ ~IsTransient(LastResponse.kind)
          /\ \A k \in 1..(e_out.calls - 1) : ~IsTransient(e_in.responses[k].kind)) =>
         e_out.calls = 1
    /\ (\A k \in 1..e_out.calls : IsTransient(e_in.responses[k].kind)) =>
         /\ e_out.status = "EmbeddingError"
         /\ e_out.calls = e_in.max_retries

\* an operation that is over has closed, once, the one EmbeddingService it
\* created, if it created one
ClosedOnce(emb) == emb.closed = emb.created /\ emb.created <= 1

\* C20: when search.hybrid_search, RAGService.search or ingest_agent has
\* returned or raised, the EmbeddingService it created for itself has been
\* closed exactly once, whatever the step that ended it; a service is never
\* closed more often than it was created, and an operation given a service
\* creates and closes none.
C20_ServiceClosedOnce ==
  /\ a_pc \in {"returned", "raised"} =>
       /\ ClosedOnce(a_emb)
       /\ a_err # "embedding_init" => a_emb.created = 1
  /\ r_pc \in {"returned", "raised"} =>
       /\ ClosedOnce(r_emb)
       /\ embedding_service = "injected" => r_emb = NoEmb
       /\ (embedding_service = "none" /\ r_in.search_type \in {"vector", "hybrid"}
             /\ r_err \notin {"domain", "domain_not_found", "embedding_init"}) =>
            r_emb.created = 1
  /\ \A r \in Runs :
       /\ ingest[r].pc \in {"save", "deleting", "insert", "commit", "returned", "raised"} =>
            /\ ClosedOnce(ingest[r].emb)
            /\ ingest[r].service = "injected" => ingest[r].emb = NoEmb
       /\ ingest[r].pc \in {"save", "deleting", "insert", "commit", "returned"} =>
            (ingest[r].service = "none" => ingest[r].emb.created = 1)
       /\ ingest[r].emb.closed <= ingest[r].emb.created
  /\ a_emb.closed <= a_emb.created
  /\ r_emb.closed <= r_emb.created

\* a failure of the store ended a Mode A call, whose service was closed
C20_Witness ==
  /\ a_pc = "raised"
  /\ a_err = "vector"
  /\ a_calls # {}
  /\ a_emb = [created |-> 1, closed |-> 1]

\* C21: rerank returns min(top_k, len(chunks)) chunks; each is one of the
\* input chunks, no chunk twice, with its chunk_id, content, header and
\* search_type and with the model's score of its content as score; the list
\* is in non-increasing order of score, and no chunk left out has a higher
\* model score than a chunk returned.
C21_Rerank ==
  rerank_call.pc = "returned" =>
    LET chunks == rerank_call.chunks
        out == rerank_call.out
        model == rerank_call.model
    IN
    /\ Len(out) = Min2(rerank_call.top_k, Len(chunks))
    /\ \A j \in 1..Len(out) :
         /\ \E i \in 1..Len(chunks) :
              /\ out[j].chunk_id = chunks[i].chunk_id
              /\ out[j].content = chunks[i].content
              /\ out[j].header = chunks[i].header
              /\ out[j].search_type = chunks[i].search_type
         /\ out[j].score = model[out[j].content]
    /\ \A j, k \in 1..Len(out) : j # k => out[j].chunk_id # out[k].chunk_id
    /\ \A j, k \in 1..Len(out) : j < k => RLeq(out[k].score, out[j].score)
    /\ \A i \in 1..Len(chunks) :
         (\A j \in 1..Len(out) : out[j].chunk_id # chunks[i].chunk_id) =>
           \A j \in 1..Len(out) : RLeq(model[chunks[i].content], out[j].score)

\* of three chunks the last, which came with the lowest score, is returned
\* first and the first is left out
C21_Witness ==
  /\ rerank_call.pc = "returned"
  /\ Len(rerank_call.chunks) = 3
  /\ rerank_call.top_k = 2
  /\ Len(rerank_call.out) = 2
  /\ rerank_call.out[1].chunk_id = rerank_call.chunks[3].chunk_id
  /\ rerank_call.chunks[1].score = ROne
  /\ \A j \in 1..2 : rerank_call.out[j].chunk_id # rerank_call.chunks[1].chunk_id

\* C22: at most one Reranker is ever constructed; every tool call that took
\* the reranker got that one object, and once _reranker_instance is set it
\* stays the object constructed first.
C22_RerankerOnce ==
  /\ reranker.made <= 1
  /\ reranker.instance \in {0, 1}
  /\ reranker.instance = reranker.made
  /\ \A t \in Tasks :
       reranker.tasks[t].got \in {0, reranker.instance}

\* two calls that reranked hold the one object while a third is searching
C22_Witness ==
  /\ reranker.made = 1
  /\ \E t, u, v \in Tasks :
       /\ t # u
       /\ reranker.tasks[t].pc = "returned" /\ reranker.tasks[t].got = 1
       /\ reranker.tasks[u].pc = "returned" /\ reranker.tasks[u].got = 1
       /\ reranker.tasks[v].pc = "searching"

\* C23: hybrid_search returns the same list, chunk by chunk and score by
\* score, when the vector queries and the FTS queries are given in another
\* order.
C23_OrderIndependent ==
  perm.pc = "returned" => perm.permuted = perm.out

\* text is the blocks of results, one per result and in their order, a blank
\* line between two blocks; a block is "## ", the header or the fallback
\* label, the pieces of after, a blank line, the content
IsRendering(text, results, after) ==
  LET b == 4 + Len(after)
      n == Len(results)
  IN
  /\ Len(text) = IF n = 0 THEN 0 ELSE n * b + (n - 1)
  /\ \A i \in 1..n :
       LET at == (i - 1) * (b + 1) IN
       /\ text[at + 1] = "## "
       /\ text[at + 2] = IF results[i].header \in {"None", ""} THEN FallbackLabel
                         ELSE results[i].header
       /\ \A k \in 1..Len(after) : text[at + 2 + k] = after[k]
       /\ text[at + b - 1] = BlankLine
       /\ text[at + b] = results[i].content
       /\ i < n => text[at + b + 1] = BlankLine

\* C24 as stated: the tool's formatted_context and get_context both render
\* "## " and the header (or the fallback label), a blank line, the content
C24_SameFormat ==
  context.pc = "returned" =>
    /\ IsRendering(context.tool, context.results, <<>>)
    /\ IsRendering(context.service, context.results, <<>>)

\* C24: the tool's formatted_context renders each result as "## " and the
\* header (or the fallback label), a blank line, the content; get_context
\* renders the same with a fixed suffix after the header on the heading line;
\* in both the blocks are joined by a blank line in input order, one per
\* result, and no result gives the empty string.
C24_ContextFormat ==
  context.pc = "returned" =>
    /\ IsRendering(context.tool, context.results, <<>>)
    /\ IsRendering(context.service, context.results, <<KnowledgeBaseSuffix>>)
    /\ context.results = <<>> => context.tool = <<>> /\ context.service = <<>>

\* three results, the second without header, rendered by both
C24_Witness ==
  /\ context.pc = "returned"
  /\ Len(context.results) = 3
  /\ context.results[1].header = "Title"
  /\ context.results[2].header = "None"
  /\ context.results[1].content # context.results[3].content
  /\ Len(context.tool) = 14
  /\ Len(context.service) = 17

\* C25: whatever RAGService.search (and with it get_context) and Mode A
\* hybrid_search have done, returned or raised, the stored chunks are the
\* ones there were before; the statements they issue on the chunks are the
\* two searches.
C25_SearchReadOnly ==
  /\ db_chunks = InitChunks
  /\ \A c \in r_calls \cup a_calls : c.kind \in {"fts", "vector"}

\* a hybrid search of RAGService returned results, and a Mode A call was
\* ended by a failing store query
C25_Witness ==
  \/ /\ r_pc = "returned"
     /\ r_in.search_type = "hybrid"
     /\ Len(r_out) > 0
     /\ Cardinality(r_calls) = 2
  \/ /\ a_pc = "raised"
     /\ a_err = "fts"
     /\ a_calls # {}

\* C26: the manager is initialized exactly when the latest lifecycle call
\* that returned is initialize(); get_tools and get_tool_by_name raise
\* MCPClientError exactly when the manager is not initialized; an initialize
\* that fails raises MCPServerUnavailableError and leaves the manager not
\* initialized; initialize on an initialized manager and close on a manager
\* that is not initialized return and change nothing.
C26_Lifecycle ==
  /\ mcp.initialized <=> mcp.up
  /\ mcp.last.op \in {"get_tools", "get_tool_by_name"} =>
       (mcp.last.outcome = "MCPClientError" <=> ~mcp.last.was_initialized)
  /\ mcp.last.op \in {"get_tools", "get_tool_by_name"} =>
       mcp.last.outcome \in {"MCPClientError", "returned"}
  /\ (mcp.last.op = "initialize"
        /\ mcp.last.outcome \notin {"returned", "awaiting"}) =>
       /\ mcp.last.outcome = "MCPServerUnavailableError"
       /\ ~mcp.initialized
  /\ (mcp.last.op = "initialize" /\ mcp.last.was_initialized) =>
       /\ mcp.last.outcome = "returned"
       /\ mcp.initialized
       /\ mcp.tools = mcp.last.was_tools
       /\ mcp.client = mcp.last.was_client
  /\ (mcp.last.op = "close" /\ ~mcp.last.was_initialized) =>
       /\ mcp.last.outcome = "returned"
       /\ ~mcp.initialized
       /\ mcp.tools = mcp.last.was_tools
       /\ mcp.client = mcp.last.was_client

\* get_tools raised on a manager whose initialize() had failed while
\* connecting: the client object is there, the manager is not initialized
C26_Witness ==
  /\ mcp.last.op = "get_tools"
  /\ mcp.last.outcome = "MCPClientError"
  /\ mcp.client = "client"
  /\ mcp.pc = "idle"

C28_ToolNeverRaises ==
  /\ t_pc \in {"idle", "searching", "filter", "returned"}
  /\ (t_pc = "returned" /\ t_out.failed) =>
       /\ t_out.chunks = <<>>
       /\ t_out.total_found = 0
       /\ Len(t_out.formatted_context) = 2
       /\ t_out.formatted_context[1] = ErrorPrefix
       /\ t_out.formatted_context[2] \in
            {"embedding_init", "domain", "domain_not_found", "embedding",
             "vector", "fts", "reranker", "formatting"}
  /\ (t_pc = "returned" /\ ~t_out.failed) =>
       /\ t_out.total_found = Len(t_out.chunks)
       /\ t_out.formatted_context = formatted_context(Rendered(t_out.chunks))

\* the reranker failed on a list of chunks the search had returned
C28_Witness ==
  /\ t_pc = "returned"
  /\ t_out.failed
  /\ t_out.formatted_context = <<ErrorPrefix, "reranker">>
  /\ t_in.use_reranker

\* C29: a run whose document gives more than MAX_BATCH_SIZE chunks hands
\* them all to the one generate_batch call of step 5 and gets no further:
\* it ends by raising IngestError from the embedding step, with neither
\* delete_by_domain nor create_batch called and the stored chunks as they
\* were when it started.
C29_OversizeDocumentFails ==
  \A r \in Runs :
    LET run == ingest[r] IN
    Len(run.chunks) > MAX_BATCH_SIZE =>
      /\ run.pc \in {"embed", "raised"}
      /\ run.pc = "raised" => run.err \in {"embedding_init", "embedding"}
      /\ run.embeddings = <<>>
      /\ run.calls = {}
      /\ db_chunks = run.before

\* the embedding service was there, and the run of a document of
\* MAX_BATCH_SIZE + 1 chunks raised at the embedding of its domain's document
C29_Witness ==
  \E r \in Runs :
    /\ ingest[r].pc = "raised"
    /\ ingest[r].err = "embedding"
    /\ Len(ingest[r].chunks) = MAX_BATCH_SIZE + 1
    /\ ingest[r].service = "injected"
    /\ \E c \in db_chunks : c.domain_id = ingest[r].domain_id

\* C30: a thread_id is registered in the ConnectionManager exactly when a
\* handler that has connected under it is still running, whatever the
\* sessions do and also when two of them use the same thread_id.
C30_RegisteredIffRunning ==
  \A t \in ThreadIds :
    is_connected(ws.active, t) <=>
      \E s \in Sessions : ws.handlers[s].pc = "open" /\ ws.handlers[s].thread_id = t

====
